---- MODULE Spec2Model ----
(***************************************************************************)
(* CPU scheduling simulator: the per-tick engine (runSchedulerSimulation   *)
(* and runMLFQ of src/algorithms/index.js), the PCB and the queues         *)
(* (core/PCB.js, core/Queues.js) and the post-processing of                *)
(* utils/schedulerUtils.js.                                                *)
(*                                                                         *)
(* A behaviour is one run of one discipline on one workload: Init draws    *)
(* the workload, the discipline and the options; RunAlgorithm clones and   *)
(* sorts the PCBs; every SchedulerTick / MLFQTick is one iteration of the  *)
(* engine's while loop; SchedulerReturn / MLFQReturn is the code after the *)
(* loop (consolidation, metrics, result).                                  *)
(***************************************************************************)
EXTENDS Integers, Sequences, FiniteSets, TLC

VARIABLES
  algorithm,              \* key of ALGORITHMS given to runAlgorithm
  options,                \* the options record given to runAlgorithm
  processes,              \* the PCBs handed to the engine (the caller's objects)
  procs,                  \* the engine's clones, sorted by arrival time
  aliasOf,                \* per engine PCB: the index in processes of the caller's
                          \* PCB that is the same object, or 0 if it is no such object
  readyQueue,             \* ReadyQueue.processes: handles (indices into procs)
  mlfq,                   \* MLFQueue.queues: one sequence of handles per level
  ioQueue,                \* IOQueue.processes: entries {process, remainingIOTime}
  ganttChart,             \* raw per-tick timeline
  stateTransitions,       \* emitted {time, pid, from, to}
  currentTime,
  runningProcess,         \* handle of the running PCB, or null
  timeInCurrentBurst,
  completedCount,
  cpuBusyTime,
  contextSwitchRemaining,
  processArrivalIndex,
  iterations,
  currentQueueLevel,      \* runMLFQ only
  currentTimeQuantum,     \* runMLFQ only
  usedFullQuantum,        \* runMLFQ only
  phase,                  \* "idle" | "loop" | "done"; "stored" once
                          \* compareAlgorithms has kept the Result of a run
  result,                 \* the returned Result, once phase = "done"
  processInputs,          \* the process input objects of the caller
  validation,             \* what validateProcessInputs returned, or NotCalled
  ctlState,               \* SimulationController.state
  currentTickIndex,       \* SimulationController.currentTickIndex
  simulationResult,       \* SimulationController.simulationResult, or NoResult
  thrown,                 \* message of the Error the last call threw, or NoError
  animation,              \* the AnimationController: "none" | "running" | "stopped"
  callerOptions,          \* compareAlgorithms: the options argument
  pendingKeys,            \* compareAlgorithms: the keys still to run
  results                 \* compareAlgorithms: the results so far, by key

vars == <<algorithm, options, processes, procs, aliasOf, readyQueue, mlfq, ioQueue,
          ganttChart, stateTransitions, currentTime, runningProcess,
          timeInCurrentBurst, completedCount, cpuBusyTime,
          contextSwitchRemaining, processArrivalIndex, iterations,
          currentQueueLevel, currentTimeQuantum, usedFullQuantum, phase,
          result, processInputs, validation, ctlState, currentTickIndex,
          simulationResult, thrown, animation,
          callerOptions, pendingKeys, results>>

\* The locals of a run of the engine
engineVars == <<procs, aliasOf, readyQueue, mlfq, ioQueue, ganttChart, stateTransitions,
                currentTime, runningProcess, timeInCurrentBurst, completedCount,
                cpuBusyTime, contextSwitchRemaining, processArrivalIndex,
                iterations, currentQueueLevel, currentTimeQuantum,
                usedFullQuantum>>

\* The caller's side: inputs, validation and the SimulationController
ctlVars == <<processInputs, validation, ctlState, currentTickIndex,
             simulationResult, thrown, animation,
             callerOptions, pendingKeys, results>>

(***************************************************************************)
(* Bounds of the model.                                                    *)
(***************************************************************************)
\* Largest arrivalTime of a generated process.
MaxArrival == 1
\* Largest cpuBurst of a generated process.
MaxCpuBurst == 2
\* Largest I/O burst duration of a generated process.
MaxIODuration == 2
\* Largest priority of a generated process.
MaxPriority == 1
\* Largest contextSwitchTime / timeQuantum / agingInterval option generated.
MaxContextSwitch == 1
MaxQuantum == 1
MaxAgingInterval == 1
\* The iteration cap of the generated runs.  Every run that does not
\* terminate costs one state per iteration up to the cap, so the generated
\* runs of Spec are checked with a cap scaled down from the code's 10000 to a
\* value that is still larger than the length of every such run that
\* terminates (CapIsLargeEnough below); the runs of SpecDeep, which all
\* terminate, keep the code's cap.
ScaledMaxIterations == 12
\* Largest cpuBurst and largest quantum of the runs of SpecDeep.
MaxDeepBurst == 3
MaxDeepQuantum == 2

(***************************************************************************)
(* Program constants.                                                      *)
(***************************************************************************)
maxIterations == 10000    \* const maxIterations = 10000
null == 0                 \* no PCB (runningProcess = null, pid: null)
Infinity == -1            \* timeQuantum of the lowest MLFQ level
Unset == -1               \* responseTime / completionTime / lastReadyTime

NotCalled == <<>>         \* validateProcessInputs has not been called
NoResult == <<>>          \* this.simulationResult = null
NoError == "none"         \* the last call returned normally

CPU == "CPU"
IO == "IO"

SumSeq(s) ==
  LET f[i \in 0..Len(s)] == IF i = 0 THEN 0 ELSE f[i - 1] + s[i]
  IN f[Len(s)]

Max(a, b) == IF a >= b THEN a ELSE b
Min(a, b) == IF a <= b THEN a ELSE b

\* Array.prototype.sort with a comparator that is a strict weak order:
\* a stable sort.  lt[i, j] stands for compare(s[i], s[j]) < 0.
StableSort(s, lt) ==
  LET n == Len(s)
      rank(i) == Cardinality({j \in 1..n :
                    lt[j, i] \/ (j < i /\ ~lt[i, j])}) + 1
  IN [k \in 1..n |-> s[CHOOSE i \in 1..n : rank(i) = k]]

(***************************************************************************)
(* PCB (core/PCB.js)                                                       *)
(***************************************************************************)
\* new PCB({pid, arrivalTime, priority, burstSequence})
NewPCB(pid, arrivalTime, priority, burstSequence) ==
  [ pid |-> pid,
    arrivalTime |-> arrivalTime,
    originalPriority |-> priority,
    priority |-> priority,
    burstSequence |-> burstSequence,
    totalCpuBurstTime |->
      SumSeq([i \in 1..Len(burstSequence) |->
               IF burstSequence[i].type = CPU
               THEN burstSequence[i].duration ELSE 0]),
    state |-> "NEW",
    currentBurstIndex |-> 0,
    remainingBurstTime |->
      IF Len(burstSequence) > 0 THEN burstSequence[1].duration ELSE 0,
    waitTime |-> 0,
    responseTime |-> Unset,
    completionTime |-> Unset,
    lastReadyTime |-> Unset,
    currentQueueLevel |-> 0 ]

\* PCB.getCurrentBurstType
getCurrentBurstType(p) ==
  IF p.currentBurstIndex >= Len(p.burstSequence) THEN "none"
  ELSE p.burstSequence[p.currentBurstIndex + 1].type

\* PCB.executeTick: the PCB afterwards; its return value is BurstComplete.
executeTick(p) ==
  IF p.remainingBurstTime > 0
  THEN [p EXCEPT !.remainingBurstTime = @ - 1]
  ELSE p

BurstComplete(p) == p.remainingBurstTime = 0

\* PCB.moveToNextBurst: the PCB afterwards; its return value is HasMoreBursts.
moveToNextBurst(p) ==
  LET i == p.currentBurstIndex + 1
  IN IF i >= Len(p.burstSequence)
     THEN [p EXCEPT !.currentBurstIndex = i]
     ELSE [p EXCEPT !.currentBurstIndex = i,
                    !.remainingBurstTime = p.burstSequence[i + 1].duration]

\* PCB.isComplete (and the return value of moveToNextBurst, negated)
isComplete(p) == p.currentBurstIndex >= Len(p.burstSequence)

\* PCB.getTurnaroundTime / getWaitingTime
getTurnaroundTime(p) ==
  IF p.completionTime = Unset THEN -1 ELSE p.completionTime - p.arrivalTime

getWaitingTime(p) ==
  IF getTurnaroundTime(p) = -1 THEN -1
  ELSE getTurnaroundTime(p) - p.totalCpuBurstTime

\* PCB.applyAging without the floor at 0.
pcbApplyAging_NoFloor(p, agingBoost) ==
  [p EXCEPT !.priority = p.priority - agingBoost]

\* PCB.applyAging(agingBoost)
pcbApplyAging(p, agingBoost) ==
  IF p.priority > 0
  THEN [p EXCEPT !.priority = Max(0, p.priority - agingBoost)]
  ELSE p

\* PCB.clone: a new PCB with every field copied
clone(p) ==
  [ NewPCB(p.pid, p.arrivalTime, p.originalPriority, p.burstSequence)
      EXCEPT !.state = p.state,
             !.currentBurstIndex = p.currentBurstIndex,
             !.remainingBurstTime = p.remainingBurstTime,
             !.priority = p.priority,
             !.waitTime = p.waitTime,
             !.responseTime = p.responseTime,
             !.completionTime = p.completionTime,
             !.lastReadyTime = p.lastReadyTime,
             !.currentQueueLevel = p.currentQueueLevel ]

\* PCB.toJSON
toJSON(p) ==
  [ pid |-> p.pid,
    arrivalTime |-> p.arrivalTime,
    priority |-> p.priority,
    originalPriority |-> p.originalPriority,
    burstSequence |-> p.burstSequence,
    state |-> p.state,
    currentBurstIndex |-> p.currentBurstIndex,
    remainingBurstTime |-> p.remainingBurstTime,
    totalCpuBurstTime |-> p.totalCpuBurstTime,
    waitTime |-> p.waitTime,
    responseTime |-> p.responseTime,
    completionTime |-> p.completionTime,
    turnaroundTime |-> getTurnaroundTime(p),
    calculatedWaitTime |-> getWaitingTime(p),
    currentQueueLevel |-> p.currentQueueLevel ]

\* createSimplePCB(pid, arrivalTime, cpuBurst, priority, ioBursts)
createSimplePCB(pid, arrivalTime, cpuBurst, priority, ioBursts) ==
  IF Len(ioBursts) = 0
  THEN NewPCB(pid, arrivalTime, priority, <<[type |-> CPU, duration |-> cpuBurst]>>)
  ELSE
    LET ByAfterCpu(a, b) == a.afterCpu < b.afterCpu
        sortedIO == StableSort(ioBursts, [i, j \in 1..Len(ioBursts) |->
                                          ByAfterCpu(ioBursts[i], ioBursts[j])])
        \* state of the for loop after k I/O bursts
        loop[k \in 0..Len(sortedIO)] ==
          IF k = 0
          THEN [seq |-> <<>>, cpuConsumed |-> 0, remainingCpu |-> cpuBurst]
          ELSE LET prev == loop[k - 1]
                   io == sortedIO[k]
                   cpuBeforeIO == io.afterCpu - prev.cpuConsumed
                   ioEntry == [type |-> IO, duration |-> io.duration]
               IN IF cpuBeforeIO > 0
                  THEN [seq |-> prev.seq \o
                                <<[type |-> CPU, duration |-> cpuBeforeIO], ioEntry>>,
                        cpuConsumed |-> prev.cpuConsumed + cpuBeforeIO,
                        remainingCpu |-> prev.remainingCpu - cpuBeforeIO]
                  ELSE [prev EXCEPT !.seq = Append(@, ioEntry)]
        final == loop[Len(sortedIO)]
        burstSequence ==
          IF final.remainingCpu > 0
          THEN Append(final.seq, [type |-> CPU, duration |-> final.remainingCpu])
          ELSE final.seq
    IN NewPCB(pid, arrivalTime, priority, burstSequence)

(***************************************************************************)
(* Engine state as one record, so that the steps of one loop iteration     *)
(* compose.  Cur is the record of the current state.                       *)
(***************************************************************************)
Cur ==
  [ procs |-> procs, readyQueue |-> readyQueue, mlfq |-> mlfq,
    ioQueue |-> ioQueue, ganttChart |-> ganttChart,
    stateTransitions |-> stateTransitions, currentTime |-> currentTime,
    runningProcess |-> runningProcess,
    timeInCurrentBurst |-> timeInCurrentBurst,
    completedCount |-> completedCount, cpuBusyTime |-> cpuBusyTime,
    contextSwitchRemaining |-> contextSwitchRemaining,
    processArrivalIndex |-> processArrivalIndex, iterations |-> iterations,
    currentQueueLevel |-> currentQueueLevel,
    currentTimeQuantum |-> currentTimeQuantum,
    usedFullQuantum |-> usedFullQuantum ]

\* stateTransitions.push({time, pid, from, to})
Emit(s, time, h, from, to) ==
  [s EXCEPT !.stateTransitions =
     Append(@, [time |-> time, pid |-> s.procs[h].pid, from |-> from, to |-> to])]

\* ganttChart.push({time, type, pid[, queueLevel]})
PushGantt(s, type, pid, level) ==
  [s EXCEPT !.ganttChart =
     Append(@, [time |-> s.currentTime, type |-> type, pid |-> pid,
                queueLevel |-> level])]

(***************************************************************************)
(* ReadyQueue (core/Queues.js)                                             *)
(***************************************************************************)
\* ReadyQueue.enqueue at the head of the queue in place of the tail.
rqEnqueue_Front(s, h) ==
  [s EXCEPT !.procs[h].state = "READY", !.readyQueue = <<h>> \o @]

\* ReadyQueue.enqueue
rqEnqueue(s, h) ==
  [s EXCEPT !.procs[h].state = "READY", !.readyQueue = Append(@, h)]

\* sortByArrival without the pid tie-break: equal arrivals keep queue order.
sortByArrival_NoTieBreak(P, q) ==
  LET Lt(a, b) == P[a].arrivalTime < P[b].arrivalTime
  IN StableSort(q, [i, j \in 1..Len(q) |-> Lt(q[i], q[j])])

\* ReadyQueue.sortByArrival
sortByArrival(P, q) ==
  LET Lt(a, b) == IF P[a].arrivalTime # P[b].arrivalTime
                  THEN P[a].arrivalTime < P[b].arrivalTime
                  ELSE P[a].pid < P[b].pid
  IN StableSort(q, [i, j \in 1..Len(q) |-> Lt(q[i], q[j])])

\* sortByBurstTime with the comparison reversed: longest burst first.
sortByBurstTime_Longest(P, q) ==
  LET Lt(a, b) == P[a].remainingBurstTime > P[b].remainingBurstTime
  IN StableSort(q, [i, j \in 1..Len(q) |-> Lt(q[i], q[j])])

\* ReadyQueue.sortByBurstTime
sortByBurstTime(P, q) ==
  LET Lt(a, b) == IF P[a].remainingBurstTime # P[b].remainingBurstTime
                  THEN P[a].remainingBurstTime < P[b].remainingBurstTime
                  ELSE IF P[a].arrivalTime # P[b].arrivalTime
                  THEN P[a].arrivalTime < P[b].arrivalTime
                  ELSE P[a].pid < P[b].pid
  IN StableSort(q, [i, j \in 1..Len(q) |-> Lt(q[i], q[j])])

\* ReadyQueue.sortByPriority
sortByPriority(P, q) ==
  LET Lt(a, b) == IF P[a].priority # P[b].priority
                  THEN P[a].priority < P[b].priority
                  ELSE IF P[a].arrivalTime # P[b].arrivalTime
                  THEN P[a].arrivalTime < P[b].arrivalTime
                  ELSE P[a].pid < P[b].pid
  IN StableSort(q, [i, j \in 1..Len(q) |-> Lt(q[i], q[j])])

\* sortByResponseRatio with the comparison turned round: lower ratio first.
sortByResponseRatio_Lowest(P, q, t) ==
  LET num(a) == (t - P[a].arrivalTime) + P[a].remainingBurstTime
      den(a) == P[a].remainingBurstTime
      Lt(a, b) == IF num(a) * den(b) # num(b) * den(a)
                  THEN num(a) * den(b) < num(b) * den(a)
                  ELSE IF P[a].arrivalTime # P[b].arrivalTime
                  THEN P[a].arrivalTime < P[b].arrivalTime
                  ELSE P[a].pid < P[b].pid
  IN StableSort(q, [i, j \in 1..Len(q) |-> Lt(q[i], q[j])])

\* ReadyQueue.sortByResponseRatio: ratio = (wait + service) / service, higher
\* first.  Every queued PCB has service >= 1, and the operands are integers
\* small enough (below 2^20 in any run within the iteration cap) for the
\* correctly rounded quotients of the division to be equal exactly when the
\* rationals are, so ratioA > ratioB is the cross-multiplied comparison below.
sortByResponseRatio(P, q, t) ==
  LET num(a) == (t - P[a].arrivalTime) + P[a].remainingBurstTime
      den(a) == P[a].remainingBurstTime
      Lt(a, b) == IF num(a) * den(b) # num(b) * den(a)
                  THEN num(a) * den(b) > num(b) * den(a)
                  ELSE IF P[a].arrivalTime # P[b].arrivalTime
                  THEN P[a].arrivalTime < P[b].arrivalTime
                  ELSE P[a].pid < P[b].pid
  IN StableSort(q, [i, j \in 1..Len(q) |-> Lt(q[i], q[j])])

\* ReadyQueue.applyAging that ages nothing.
rqApplyAging_None(P, q, t, agingInterval, agingBoost) == P

\* ReadyQueue.applyAging(currentTime, agingInterval, agingBoost): the PCBs
\* afterwards (only the queued ones change).
rqApplyAging(P, q, t, agingInterval, agingBoost) ==
  LET inQ == {q[i] : i \in 1..Len(q)}
      aged(p) ==
        IF p.lastReadyTime # Unset
        THEN LET agingUnits == (t - p.lastReadyTime) \div agingInterval
             IN IF agingUnits > 0 THEN pcbApplyAging(p, agingBoost * agingUnits)
                ELSE p
        ELSE p
  IN [h \in DOMAIN P |-> IF h \in inQ THEN aged(P[h]) ELSE P[h]]

\* ReadyQueue.incrementWaitTime
rqIncrementWaitTime(P, q) ==
  LET inQ == {q[i] : i \in 1..Len(q)}
  IN [h \in DOMAIN P |-> IF h \in inQ THEN [P[h] EXCEPT !.waitTime = @ + 1]
                         ELSE P[h]]

(***************************************************************************)
(* IOQueue (core/Queues.js)                                                *)
(***************************************************************************)
\* IOQueue.enqueue
ioEnqueue(s, h) ==
  [s EXCEPT !.procs[h].state = "WAITING",
            !.ioQueue = Append(@, [process |-> h,
                                   remainingIOTime |-> s.procs[h].remainingBurstTime])]

\* IOQueue.tick: every entry is decremented; an entry at <= 0 leaves the queue
\* and its PCB moves to its next burst.  ioCompleted(s) is the returned list,
\* ioTick(s) the state afterwards.
ioCompleted(s) ==
  LET done == SelectSeq(s.ioQueue, LAMBDA e : e.remainingIOTime - 1 <= 0)
  IN [i \in 1..Len(done) |-> done[i].process]

ioTick(s) ==
  LET dec == [i \in 1..Len(s.ioQueue) |->
                [s.ioQueue[i] EXCEPT !.remainingIOTime = @ - 1]]
      doneSet == {dec[i].process : i \in {j \in 1..Len(dec) : dec[j].remainingIOTime <= 0}}
  IN [s EXCEPT !.ioQueue = SelectSeq(dec, LAMBDA e : e.remainingIOTime > 0),
               !.procs = [h \in DOMAIN s.procs |->
                            IF h \in doneSet THEN moveToNextBurst(s.procs[h])
                            ELSE s.procs[h]]]

(***************************************************************************)
(* Options (algorithms/index.js).  An option the caller leaves out is      *)
(* undefined; a destructuring default replaces undefined only.             *)
(***************************************************************************)
undefined == -1

OptOr(v, d) == IF v = undefined THEN d ELSE v

NonPreemptive == {"FCFS", "SJF", "PRIORITY_NP", "HRRN"}

\* the `preemptive` flag each run* function passes to runSchedulerSimulation
preemptiveOf(alg) == alg \in {"SRTF", "PRIORITY_P", "ROUND_ROBIN"}

\* The timeQuantum of the caller's options handed on by every run* function,
\* the `timeQuantum: null` of the non-preemptive ones left out.
timeQuantumOf_Passed(alg, opts) ==
  IF alg = "ROUND_ROBIN" THEN OptOr(opts.timeQuantum, 4) ELSE opts.timeQuantum

\* the `timeQuantum` each run* function passes: null for the non-preemptive
\* ones, options.timeQuantum (default 4) for Round Robin, and whatever the
\* caller's options hold ({...options}) for SRTF and PRIORITY_P.
timeQuantumOf(alg, opts) ==
  IF alg \in NonPreemptive THEN undefined
  ELSE IF alg = "ROUND_ROBIN" THEN OptOr(opts.timeQuantum, 4)
  ELSE opts.timeQuantum

\* QuantumExpired one tick late: > in place of >=.
QuantumExpired_Late(t, q) == q # undefined /\ q # Infinity /\ t > q

\* timeQuantum !== null && timeInCurrentBurst >= timeQuantum
\* (false for null, undefined and Infinity)
QuantumExpired(t, q) == q # undefined /\ q # Infinity /\ t >= q

contextSwitchTimeOf(opts) == OptOr(opts.contextSwitchTime, 0)
agingIntervalOf(opts) == OptOr(opts.agingInterval, 0)
agingBoostOf(opts) == OptOr(opts.agingBoost, 1)

(***************************************************************************)
(* runSchedulerSimulation: the steps of one loop iteration                 *)
(***************************************************************************)
\* 1. Handle new arrivals
RECURSIVE HandleArrivals(_)
HandleArrivals(s) ==
  IF s.processArrivalIndex < Len(s.procs)
     /\ s.procs[s.processArrivalIndex + 1].arrivalTime <= s.currentTime
  THEN LET h == s.processArrivalIndex + 1
           a == [s EXCEPT !.procs[h].state = "READY",
                          !.procs[h].lastReadyTime = s.currentTime]
           b == Emit(rqEnqueue(a, h), s.currentTime, h, "NEW", "READY")
       IN HandleArrivals([b EXCEPT !.processArrivalIndex = @ + 1])
  ELSE s

\* 2. Handle I/O completions
HandleIOCompletions(s) ==
  LET completed == ioCompleted(s)
      ticked == ioTick(s)
      f[k \in 0..Len(completed)] ==
        IF k = 0 THEN ticked
        ELSE LET h == completed[k]
                 prev == f[k - 1]
             IN IF ~isComplete(prev.procs[h])
                THEN Emit(rqEnqueue([prev EXCEPT !.procs[h].lastReadyTime =
                                                   prev.currentTime], h),
                          prev.currentTime, h, "WAITING", "READY")
                ELSE prev
  IN f[Len(completed)]

\* ContextSwitchTick with the timeline entry forgotten.
ContextSwitchTick_NoEntry(s) ==
  [s EXCEPT !.contextSwitchRemaining = @ - 1, !.currentTime = @ + 1]

\* 3. Handle context switch overhead (the branch that ends with `continue`)
ContextSwitchTick(s) ==
  [PushGantt(s, "CONTEXT_SWITCH", null, undefined)
     EXCEPT !.contextSwitchRemaining = @ - 1,
            !.currentTime = @ + 1]

\* srtfCheckPreemption that never preempts (SRTF degraded to SJF).
srtfCheckPreemption_Never(s) == FALSE

\* checkPreemption of runSRTF
srtfCheckPreemption(s) ==
  IF s.readyQueue = <<>> THEN FALSE
  ELSE \E i \in 1..Len(s.readyQueue) :
         s.procs[s.readyQueue[i]].remainingBurstTime
           < s.procs[s.runningProcess].remainingBurstTime

\* checkPreemption of runPriorityP: the PCBs after its applyAging call ...
priorityPAged(opts, s) ==
  IF s.readyQueue # <<>> /\ agingIntervalOf(opts) > 0
  THEN [s EXCEPT !.procs = rqApplyAging(s.procs, s.readyQueue, s.currentTime,
                                        agingIntervalOf(opts), agingBoostOf(opts))]
  ELSE s

\* ... and its return value, evaluated on those PCBs
priorityPCheckPreemption(s) ==
  IF s.readyQueue = <<>> THEN FALSE
  ELSE \E i \in 1..Len(s.readyQueue) :
         s.procs[s.readyQueue[i]].priority < s.procs[s.runningProcess].priority

\* 4.-6. Preemption check, quantum expiry, preemption
HandlePreemption(alg, opts, s) ==
  LET called == s.runningProcess # null /\ preemptiveOf(alg)
      a == IF called /\ alg = "PRIORITY_P" THEN priorityPAged(opts, s) ELSE s
      byPolicy == /\ called
                  /\ CASE alg = "SRTF" -> srtfCheckPreemption(a)
                       [] alg = "PRIORITY_P" -> priorityPCheckPreemption(a)
                       [] OTHER -> FALSE
      byQuantum == /\ a.runningProcess # null
                   /\ QuantumExpired(a.timeInCurrentBurst, timeQuantumOf(alg, opts))
      shouldPreempt == byPolicy \/ byQuantum
      h == a.runningProcess
  IN IF shouldPreempt /\ h # null
     THEN LET b == [a EXCEPT !.procs[h].state = "READY",
                             !.procs[h].lastReadyTime = a.currentTime]
              c == Emit(rqEnqueue(b, h), a.currentTime, h, "RUNNING", "READY")
          IN [c EXCEPT !.runningProcess = null,
                       !.timeInCurrentBurst = 0,
                       !.contextSwitchRemaining =
                          IF contextSwitchTimeOf(opts) > 0
                          THEN contextSwitchTimeOf(opts) ELSE @]
     ELSE a

\* selectNext of runFCFS .. runHRRN: the ready queue it dequeues from, after
\* its aging and sort; the PCBs after its aging.
selectNextProcs(alg, opts, s) ==
  IF alg \in {"PRIORITY_NP", "PRIORITY_P"} /\ agingIntervalOf(opts) > 0
  THEN rqApplyAging(s.procs, s.readyQueue, s.currentTime,
                    agingIntervalOf(opts), agingBoostOf(opts))
  ELSE s.procs

selectNextOrder(alg, opts, s) ==
  LET P == selectNextProcs(alg, opts, s)
  IN CASE alg = "FCFS" -> sortByArrival(P, s.readyQueue)
       [] alg \in {"SJF", "SRTF"} -> sortByBurstTime(P, s.readyQueue)
       [] alg \in {"PRIORITY_NP", "PRIORITY_P"} -> sortByPriority(P, s.readyQueue)
       [] alg = "HRRN" -> sortByResponseRatio(P, s.readyQueue, s.currentTime)
       [] OTHER -> s.readyQueue

\* Step 7 recording the response time at every dispatch.
SelectNext_Every(alg, opts, s) ==
  IF s.runningProcess = null /\ s.readyQueue # <<>>
  THEN LET order == selectNextOrder(alg, opts, s)
           h == Head(order)
           a == [s EXCEPT !.procs = selectNextProcs(alg, opts, s),
                          !.readyQueue = Tail(order),
                          !.runningProcess = h,
                          !.timeInCurrentBurst = 0]
           b == [a EXCEPT !.procs[h].state = "RUNNING",
                          !.procs[h].responseTime =
                             a.currentTime - a.procs[h].arrivalTime]
       IN Emit(b, s.currentTime, h, "READY", "RUNNING")
  ELSE s

\* A selection step that dispatches only once a ready process arrived before
\* the current tick
SelectNext_AfterArrivalTick(alg, opts, s) ==
  IF s.runningProcess = null /\ s.readyQueue # <<>>
     /\ \E r \in 1..Len(s.readyQueue) :
          s.procs[s.readyQueue[r]].arrivalTime < s.currentTime
  THEN LET order == selectNextOrder(alg, opts, s)
           h == Head(order)
           a == [s EXCEPT !.procs = selectNextProcs(alg, opts, s),
                          !.readyQueue = Tail(order),
                          !.runningProcess = h,
                          !.timeInCurrentBurst = 0]
           b == [a EXCEPT !.procs[h].state = "RUNNING",
                          !.procs[h].responseTime =
                             IF @ = Unset
                             THEN a.currentTime - a.procs[h].arrivalTime ELSE @]
       IN Emit(b, s.currentTime, h, "READY", "RUNNING")
  ELSE s

\* 7. If no process running, select next
SelectNext(alg, opts, s) ==
  IF s.runningProcess = null /\ s.readyQueue # <<>>
  THEN LET order == selectNextOrder(alg, opts, s)
           h == Head(order)
           a == [s EXCEPT !.procs = selectNextProcs(alg, opts, s),
                          !.readyQueue = Tail(order),
                          !.runningProcess = h,
                          !.timeInCurrentBurst = 0]
           b == [a EXCEPT !.procs[h].state = "RUNNING",
                          !.procs[h].responseTime =
                             IF @ = Unset
                             THEN a.currentTime - a.procs[h].arrivalTime ELSE @]
       IN Emit(b, s.currentTime, h, "READY", "RUNNING")
  ELSE s

\* 8. Execute current process or idle, with the burst-completion handling
ExecuteOrIdle(opts, s, level) ==
  IF s.runningProcess # null
  THEN LET h == s.runningProcess
           a == PushGantt(s, "PROCESS", s.procs[h].pid, level)
           b == [a EXCEPT !.cpuBusyTime = @ + 1,
                          !.procs[h] = executeTick(@),
                          !.timeInCurrentBurst = @ + 1]
       IN IF BurstComplete(b.procs[h])
          THEN LET c == [b EXCEPT !.procs[h] = moveToNextBurst(@)]
                   d == IF isComplete(c.procs[h])
                        THEN Emit([c EXCEPT !.procs[h].completionTime = c.currentTime + 1,
                                            !.procs[h].state = "TERMINATED",
                                            !.completedCount = @ + 1],
                                  c.currentTime + 1, h, "RUNNING", "TERMINATED")
                        ELSE IF getCurrentBurstType(c.procs[h]) = IO
                        THEN Emit(ioEnqueue(c, h),
                                  c.currentTime + 1, h, "RUNNING", "WAITING")
                        ELSE c
               IN [d EXCEPT !.runningProcess = null,
                            !.timeInCurrentBurst = 0,
                            !.usedFullQuantum = FALSE,
                            !.contextSwitchRemaining =
                               IF contextSwitchTimeOf(opts) > 0
                                  /\ d.completedCount < Len(d.procs)
                               THEN contextSwitchTimeOf(opts) ELSE @]
          ELSE b
  ELSE PushGantt(s, "IDLE", null, undefined)

\* The loop body with the preemption check moved ahead of the admission of
\* arrivals and I/O completions.
SchedulerIteration_PreemptFirst(alg, opts, s) ==
  LET s0 == [s EXCEPT !.iterations = @ + 1]
  IN IF s0.contextSwitchRemaining > 0
     THEN ContextSwitchTick(HandleIOCompletions(HandleArrivals(s0)))
     ELSE LET s6 == HandleIOCompletions(HandleArrivals(
                      HandlePreemption(alg, opts, s0)))
              s7 == SelectNext(alg, opts, s6)
              s8 == ExecuteOrIdle(opts, s7, undefined)
          IN [s8 EXCEPT !.procs = rqIncrementWaitTime(s8.procs, s8.readyQueue),
                        !.currentTime = @ + 1]

\* One iteration of the while loop of runSchedulerSimulation
SchedulerIteration(alg, opts, s) ==
  LET s0 == [s EXCEPT !.iterations = @ + 1]
      s2 == HandleIOCompletions(HandleArrivals(s0))
  IN IF s2.contextSwitchRemaining > 0
     THEN ContextSwitchTick(s2)
     ELSE LET s6 == HandlePreemption(alg, opts, s2)
              s7 == SelectNext(alg, opts, s6)
              s8 == ExecuteOrIdle(opts, s7, undefined)
          IN [s8 EXCEPT !.procs = rqIncrementWaitTime(s8.procs, s8.readyQueue),
                        !.currentTime = @ + 1]

(***************************************************************************)
(* MLFQueue (core/Queues.js).  Levels are 0-based as in the code; level L  *)
(* is mlfq[L + 1].                                                         *)
(***************************************************************************)
\* queueConfigs as runAlgorithm builds them: options.q1TimeQuantum || 4,
\* options.q2TimeQuantum || 8, Infinity
queueConfigs(opts) ==
  << IF opts.q1TimeQuantum = undefined \/ opts.q1TimeQuantum = 0
     THEN 4 ELSE opts.q1TimeQuantum,
     IF opts.q2TimeQuantum = undefined \/ opts.q2TimeQuantum = 0
     THEN 8 ELSE opts.q2TimeQuantum,
     Infinity >>

\* MLFQueue.enqueue(process, level)
mlfqEnqueue(s, h, level) ==
  LET lv == IF level >= Len(s.mlfq) THEN Len(s.mlfq) - 1 ELSE level
  IN [s EXCEPT !.procs[h].currentQueueLevel = lv,
               !.procs[h].state = "READY",
               !.mlfq[lv + 1] = Append(@, h)]

\* MLFQueue.demote that re-queues at the level the PCB has.
mlfqDemote_Stay(s, h) == mlfqEnqueue(s, h, s.procs[h].currentQueueLevel)

\* MLFQueue.demote(process)
mlfqDemote(s, h) ==
  mlfqEnqueue(s, h, Min(s.procs[h].currentQueueLevel + 1, Len(s.mlfq) - 1))

\* MLFQueue.isEmpty
mlfqIsEmpty(s) == \A i \in 1..Len(s.mlfq) : s.mlfq[i] = <<>>

\* MLFQueue.peekNextProcess / getNextProcess: the level they find
\* (0-based); only meaningful when the structure is not empty.
mlfqNextLevel(s) ==
  (CHOOSE i \in 1..Len(s.mlfq) :
     s.mlfq[i] # <<>> /\ \A j \in 1..(i - 1) : s.mlfq[j] = <<>>) - 1

\* MLFQueue.applyAging(currentTime, agingInterval, agingThreshold = 3):
\* levels 1..N-1 in ascending order; a PCB that waited agingThreshold *
\* agingInterval ticks moves to the tail of the level above.
agingThreshold == 3

mlfqApplyAging(s, agingInterval) ==
  LET n == Len(s.mlfq)
      waited(h) == /\ s.procs[h].lastReadyTime # Unset
                   /\ s.currentTime - s.procs[h].lastReadyTime
                        >= agingThreshold * agingInterval
      \* PCBs leaving 1-based queue i (none leave the top queue)
      promote(i) == IF i = 1 \/ i > n THEN <<>>
                    ELSE SelectSeq(s.mlfq[i], waited)
      keep(i) == IF i = 1 THEN s.mlfq[i]
                 ELSE SelectSeq(s.mlfq[i], LAMBDA h : ~waited(h))
      moved == UNION {{promote(i)[k] : k \in 1..Len(promote(i))} : i \in 2..n}
      \* this.enqueue(process, i - 1) for the 0-based level i it leaves
      newLevel(h) == (CHOOSE i \in 2..n : \E k \in 1..Len(promote(i)) : promote(i)[k] = h) - 2
  IN [s EXCEPT !.mlfq = [i \in 1..n |-> keep(i) \o promote(i + 1)],
               !.procs = [h \in DOMAIN s.procs |->
                            IF h \in moved
                            THEN [s.procs[h] EXCEPT !.currentQueueLevel = newLevel(h),
                                                    !.state = "READY",
                                                    !.lastReadyTime = s.currentTime]
                            ELSE s.procs[h]]]

\* MLFQueue.incrementWaitTime
mlfqIncrementWaitTime(s) ==
  LET inQ == UNION {{s.mlfq[i][k] : k \in 1..Len(s.mlfq[i])} : i \in 1..Len(s.mlfq)}
  IN [h \in DOMAIN s.procs |->
        IF h \in inQ THEN [s.procs[h] EXCEPT !.waitTime = @ + 1] ELSE s.procs[h]]

(***************************************************************************)
(* runMLFQ: the steps of one loop iteration                                *)
(***************************************************************************)
\* 1. Handle new arrivals (always go to highest priority queue)
RECURSIVE MLFQHandleArrivals(_)
MLFQHandleArrivals(s) ==
  IF s.processArrivalIndex < Len(s.procs)
     /\ s.procs[s.processArrivalIndex + 1].arrivalTime <= s.currentTime
  THEN LET h == s.processArrivalIndex + 1
           a == [s EXCEPT !.procs[h].state = "READY",
                          !.procs[h].lastReadyTime = s.currentTime]
           b == Emit(mlfqEnqueue(a, h, 0), s.currentTime, h, "NEW", "READY")
       IN MLFQHandleArrivals([b EXCEPT !.processArrivalIndex = @ + 1])
  ELSE s

\* Step 2 of runMLFQ without the promotion: a process coming back from I/O
\* is enqueued at the level it had.
MLFQHandleIOCompletions_SameLevel(s) ==
  LET completed == ioCompleted(s)
      ticked == ioTick(s)
      f[k \in 0..Len(completed)] ==
        IF k = 0 THEN ticked
        ELSE LET h == completed[k]
                 prev == f[k - 1]
             IN IF ~isComplete(prev.procs[h])
                THEN Emit(mlfqEnqueue([prev EXCEPT !.procs[h].lastReadyTime =
                                                     prev.currentTime], h,
                                      prev.procs[h].currentQueueLevel),
                          prev.currentTime, h, "WAITING", "READY")
                ELSE prev
  IN f[Len(completed)]

\* 2. Handle I/O completions (promote on I/O completion)
MLFQHandleIOCompletions(s) ==
  LET completed == ioCompleted(s)
      ticked == ioTick(s)
      f[k \in 0..Len(completed)] ==
        IF k = 0 THEN ticked
        ELSE LET h == completed[k]
                 prev == f[k - 1]
                 newLevel == Max(0, prev.procs[h].currentQueueLevel - 1)
             IN IF ~isComplete(prev.procs[h])
                THEN Emit(mlfqEnqueue([prev EXCEPT !.procs[h].lastReadyTime =
                                                     prev.currentTime], h, newLevel),
                          prev.currentTime, h, "WAITING", "READY")
                ELSE prev
  IN f[Len(completed)]

\* Steps 4-6 of runMLFQ demoting every preempted process, whether or not it
\* used its quantum.
MLFQHandlePreemption_AlwaysDemote(opts, s) ==
  LET h == s.runningProcess
      byQuantum == h # null /\ QuantumExpired(s.timeInCurrentBurst, s.currentTimeQuantum)
      byLevel == /\ h # null /\ ~byQuantum
                 /\ ~mlfqIsEmpty(s)
                 /\ mlfqNextLevel(s) < s.currentQueueLevel
  IN IF byQuantum \/ byLevel
     THEN LET a == [s EXCEPT !.procs[h].state = "READY",
                             !.procs[h].lastReadyTime = s.currentTime]
              c == Emit(mlfqDemote(a, h), s.currentTime, h, "RUNNING", "READY")
          IN [c EXCEPT !.runningProcess = null,
                       !.timeInCurrentBurst = 0,
                       !.usedFullQuantum = FALSE,
                       !.contextSwitchRemaining =
                          IF contextSwitchTimeOf(opts) > 0
                          THEN contextSwitchTimeOf(opts) ELSE @]
     ELSE s

\* 4.-6. Quantum expiry, higher-priority queue check, preemption
MLFQHandlePreemption(opts, s) ==
  LET h == s.runningProcess
      byQuantum == h # null /\ QuantumExpired(s.timeInCurrentBurst, s.currentTimeQuantum)
      byLevel == /\ h # null /\ ~byQuantum
                 /\ ~mlfqIsEmpty(s)
                 /\ mlfqNextLevel(s) < s.currentQueueLevel
      full == IF byQuantum THEN TRUE
              ELSE IF byLevel THEN FALSE ELSE s.usedFullQuantum
  IN IF byQuantum \/ byLevel
     THEN LET a == [s EXCEPT !.procs[h].state = "READY",
                             !.procs[h].lastReadyTime = s.currentTime]
              b == IF full THEN mlfqDemote(a, h)
                   ELSE mlfqEnqueue(a, h, s.currentQueueLevel)
              c == Emit(b, s.currentTime, h, "RUNNING", "READY")
          IN [c EXCEPT !.runningProcess = null,
                       !.timeInCurrentBurst = 0,
                       !.usedFullQuantum = FALSE,
                       !.contextSwitchRemaining =
                          IF contextSwitchTimeOf(opts) > 0
                          THEN contextSwitchTimeOf(opts) ELSE @]
     ELSE [s EXCEPT !.usedFullQuantum = full]

\* 7. Apply aging
MLFQAging(opts, s) ==
  IF agingIntervalOf(opts) > 0 THEN mlfqApplyAging(s, agingIntervalOf(opts)) ELSE s

\* 8. Select next process
MLFQSelectNext(opts, s) ==
  IF s.runningProcess = null /\ ~mlfqIsEmpty(s)
  THEN LET lv == mlfqNextLevel(s)
           h == Head(s.mlfq[lv + 1])
           a == [s EXCEPT !.mlfq[lv + 1] = Tail(@),
                          !.runningProcess = h,
                          !.currentQueueLevel = lv,
                          !.currentTimeQuantum = queueConfigs(opts)[lv + 1],
                          !.timeInCurrentBurst = 0]
           b == [a EXCEPT !.procs[h].state = "RUNNING",
                          !.procs[h].responseTime =
                             IF @ = Unset
                             THEN a.currentTime - a.procs[h].arrivalTime ELSE @]
       IN Emit(b, s.currentTime, h, "READY", "RUNNING")
  ELSE s

\* The loop body of runMLFQ with the wait times of the queued processes
\* counted in a context-switch tick as well.
MLFQIteration_WaitInSwitch(opts, s) ==
  LET s0 == [s EXCEPT !.iterations = @ + 1]
      s2 == MLFQHandleIOCompletions(MLFQHandleArrivals(s0))
  IN IF s2.contextSwitchRemaining > 0
     THEN LET s3 == ContextSwitchTick(s2)
          IN [s3 EXCEPT !.procs = mlfqIncrementWaitTime(s3)]
     ELSE LET s6 == MLFQHandlePreemption(opts, s2)
              s7 == MLFQAging(opts, s6)
              s8 == MLFQSelectNext(opts, s7)
              s9 == ExecuteOrIdle(opts, s8, s8.currentQueueLevel)
          IN [s9 EXCEPT !.procs = mlfqIncrementWaitTime(s9),
                        !.currentTime = @ + 1]

\* One iteration of the while loop of runMLFQ
MLFQIteration(opts, s) ==
  LET s0 == [s EXCEPT !.iterations = @ + 1]
      s2 == MLFQHandleIOCompletions(MLFQHandleArrivals(s0))
  IN IF s2.contextSwitchRemaining > 0
     THEN ContextSwitchTick(s2)
     ELSE LET s6 == MLFQHandlePreemption(opts, s2)
              s7 == MLFQAging(opts, s6)
              s8 == MLFQSelectNext(opts, s7)
              s9 == ExecuteOrIdle(opts, s8, s8.currentQueueLevel)
          IN [s9 EXCEPT !.procs = mlfqIncrementWaitTime(s9),
                        !.currentTime = @ + 1]

(***************************************************************************)
(* Post-processing (utils/schedulerUtils.js)                               *)
(***************************************************************************)
\* A consolidation that merges consecutive entries of one type and process
\* whatever their queue level
consolidateGanttChart_AcrossLevels(raw) ==
  LET f[k \in 0..Len(raw)] ==
        IF k = 0 THEN <<>>
        ELSE LET acc == f[k - 1]
                 entry == raw[k]
                 n == Len(acc)
             IN IF n > 0 /\ acc[n].type = entry.type /\ acc[n].pid = entry.pid
                THEN [acc EXCEPT ![n].endTime = entry.time + 1,
                                 ![n].duration = @ + 1]
                ELSE Append(acc, [time |-> entry.time, type |-> entry.type,
                                  pid |-> entry.pid, queueLevel |-> entry.queueLevel,
                                  startTime |-> entry.time,
                                  endTime |-> entry.time + 1,
                                  duration |-> 1])
  IN f[Len(raw)]

\* consolidateGanttChart(rawGanttChart)
consolidateGanttChart(raw) ==
  LET f[k \in 0..Len(raw)] ==
        IF k = 0 THEN <<>>
        ELSE LET acc == f[k - 1]
                 entry == raw[k]
                 n == Len(acc)
             IN IF n > 0 /\ acc[n].type = entry.type /\ acc[n].pid = entry.pid
                   /\ acc[n].queueLevel = entry.queueLevel
                THEN [acc EXCEPT ![n].endTime = entry.time + 1,
                                 ![n].duration = @ + 1]
                ELSE Append(acc, [time |-> entry.time, type |-> entry.type,
                                  pid |-> entry.pid, queueLevel |-> entry.queueLevel,
                                  startTime |-> entry.time,
                                  endTime |-> entry.time + 1,
                                  duration |-> 1])
  IN f[Len(raw)]

\* A quotient a / b of the code, kept exact as numerator and denominator.
Ratio(a, b) == [num |-> a, den |-> b]

\* calculateMetrics(processes, ganttChart, totalTime, cpuBusyTime)
calculateMetrics(P, gantt, totalTime, busy) ==
  LET completedProcs == SelectSeq(P, LAMBDA p : p.state = "TERMINATED")
      n == Len(completedProcs)
      avg(f(_)) == IF n > 0
                   THEN Ratio(SumSeq([i \in 1..n |-> f(completedProcs[i])]), n)
                   ELSE Ratio(0, 1)
      resp(p) == p.responseTime
  IN [ avgTurnaroundTime |-> avg(getTurnaroundTime),
       avgWaitingTime |-> avg(getWaitingTime),
       avgResponseTime |-> avg(resp),
       cpuUtilization |-> IF totalTime > 0 THEN Ratio(busy * 100, totalTime)
                          ELSE Ratio(0, 1),
       throughput |-> IF totalTime > 0 THEN Ratio(n, totalTime) ELSE Ratio(0, 1),
       totalTime |-> totalTime,
       contextSwitches |->
         Len(SelectSeq(gantt, LAMBDA e : e.type = "CONTEXT_SWITCH")) ]

\* The object both engines return after their loop
EngineResult(s) ==
  [ ganttChart |-> consolidateGanttChart(s.ganttChart),
    rawGanttChart |-> s.ganttChart,
    stateTransitions |-> s.stateTransitions,
    processes |-> [i \in 1..Len(s.procs) |-> toJSON(s.procs[i])],
    metrics |-> calculateMetrics(s.procs, s.ganttChart, s.currentTime, s.cpuBusyTime) ]

(***************************************************************************)
(* Inputs                                                                  *)
(***************************************************************************)
ALGORITHMS == {"FCFS", "SJF", "SRTF", "PRIORITY_NP", "PRIORITY_P",
               "ROUND_ROBIN", "HRRN", "MLFQ"}

PriorityAlgorithms == {"PRIORITY_NP", "PRIORITY_P"}

Input(pid, arrivalTime, cpuBurst, priority, ioBursts) ==
  [pid |-> pid, arrivalTime |-> arrivalTime, cpuBurst |-> cpuBurst,
   priority |-> priority, ioBursts |-> ioBursts]

IOB(afterCpu, duration) == [afterCpu |-> afterCpu, duration |-> duration]

Options(cs, tq, ai, ab, q1, q2) ==
  [contextSwitchTime |-> cs, timeQuantum |-> tq, agingInterval |-> ai,
   agingBoost |-> ab, q1TimeQuantum |-> q1, q2TimeQuantum |-> q2]

\* SimulationController.setProcesses: one PCB per process input
setProcesses(processData) ==
  [i \in 1..Len(processData) |->
     createSimplePCB(processData[i].pid, processData[i].arrivalTime,
                     processData[i].cpuBurst, processData[i].priority,
                     processData[i].ioBursts)]

\* Valid process inputs within the bounds: at most one I/O burst, anywhere
\* in 0..cpuBurst.
GeneralInputs(pid, priorities) ==
  UNION {
    { Input(pid, a, c, pr, io) :
        a \in 0..MaxArrival, pr \in priorities,
        io \in {<<>>} \cup { <<IOB(ac, d)>> : ac \in 0..c, d \in 1..MaxIODuration } }
    : c \in 1..MaxCpuBurst }

GeneralOptions(alg) ==
  { Options(cs, tq, ai, undefined, q1, undefined) :
      cs \in 0..MaxContextSwitch,
      tq \in IF alg = "ROUND_ROBIN" THEN 1..MaxQuantum ELSE {undefined},
      ai \in IF alg \in PriorityAlgorithms \cup {"MLFQ"}
             THEN 0..MaxAgingInterval ELSE {undefined},
      q1 \in IF alg = "MLFQ" THEN 1..MaxQuantum ELSE {undefined} }

\* Longer processes whose I/O burst, if any, lies strictly inside the CPU
\* time, so that the burst sequence is CPU, IO, CPU.
DeepInputs(pid, priorities) ==
  UNION {
    { Input(pid, a, c, pr, io) :
        a \in 0..MaxArrival, pr \in priorities,
        io \in {<<>>} \cup { <<IOB(ac, d)>> : ac \in 1..(c - 1), d \in 1..MaxIODuration } }
    : c \in 1..MaxDeepBurst }

\* The disciplines a quantum acts on: Round Robin, MLFQ, and SRTF and
\* PRIORITY_P when the caller's options carry a timeQuantum (the controller's
\* option record always does).
DeepAlgorithms == {"ROUND_ROBIN", "MLFQ", "SRTF", "PRIORITY_P"}

DeepOptions(alg) ==
  { Options(cs, tq, ai, undefined, q1, q2) :
      cs \in 0..MaxContextSwitch,
      tq \in IF alg = "MLFQ" THEN {undefined} ELSE 1..MaxDeepQuantum,
      ai \in IF alg = "MLFQ" THEN 0..MaxAgingInterval ELSE {undefined},
      q1 \in IF alg = "MLFQ" THEN 1..MaxDeepQuantum ELSE {undefined},
      q2 \in IF alg = "MLFQ" THEN 1..MaxDeepQuantum ELSE {undefined} }

\* The end-to-end scenarios S1..S6 of the specification.
CpuOnly(pid, arrivalTime, cpuBurst, priority) ==
  Input(pid, arrivalTime, cpuBurst, priority, <<>>)

NoOptions == Options(0, undefined, undefined, undefined, undefined, undefined)

S1Workload == <<CpuOnly(1, 0, 5, 0), CpuOnly(2, 1, 3, 0), CpuOnly(3, 2, 1, 0)>>
S2Workload == <<CpuOnly(1, 0, 6, 0), CpuOnly(2, 0, 8, 0), CpuOnly(3, 0, 7, 0),
                CpuOnly(4, 0, 3, 0)>>
S3Workload == <<CpuOnly(1, 0, 8, 0), CpuOnly(2, 1, 4, 0), CpuOnly(3, 2, 2, 0),
                CpuOnly(4, 3, 1, 0)>>
S4Workload == <<CpuOnly(1, 0, 10, 0), CpuOnly(2, 0, 4, 0), CpuOnly(3, 0, 7, 0)>>
S5Workload == <<CpuOnly(1, 0, 10, 3), CpuOnly(5, 0, 3, 5)>>
S6Workload == <<CpuOnly(1, 0, 20, 0), CpuOnly(2, 0, 3, 0)>>

ScenarioRuns ==
  { [algorithm |-> "FCFS", options |-> NoOptions, workload |-> S1Workload],
    [algorithm |-> "SJF", options |-> NoOptions, workload |-> S2Workload],
    [algorithm |-> "SRTF", options |-> NoOptions, workload |-> S3Workload],
    [algorithm |-> "SRTF", options |-> [NoOptions EXCEPT !.timeQuantum = 4],
     workload |-> S3Workload],
    [algorithm |-> "ROUND_ROBIN", options |-> [NoOptions EXCEPT !.timeQuantum = 4],
     workload |-> S4Workload],
    [algorithm |-> "PRIORITY_NP", options |-> [NoOptions EXCEPT !.agingInterval = 0],
     workload |-> S5Workload],
    [algorithm |-> "PRIORITY_NP", options |-> [NoOptions EXCEPT !.agingInterval = 2],
     workload |-> S5Workload],
    [algorithm |-> "MLFQ",
     options |-> [NoOptions EXCEPT !.q1TimeQuantum = 4, !.q2TimeQuantum = 8],
     workload |-> S6Workload] }

(***************************************************************************)
(* The state machine                                                       *)
(***************************************************************************)
\* A SimulationController as its constructor (reset) leaves it, no
\* comparison under way; no input handed over and nothing validated.
InitController ==
  /\ ctlState = "IDLE"
  /\ currentTickIndex = 0
  /\ simulationResult = NoResult
  /\ thrown = NoError
  /\ animation = "none"
  /\ callerOptions = <<>>
  /\ pendingKeys = <<>>
  /\ results = <<>>

InitCaller ==
  /\ processInputs = <<>>
  /\ validation = NotCalled
  /\ InitController

InitEngine ==
  /\ aliasOf = <<>>
  /\ procs = <<>>
  /\ readyQueue = <<>>
  /\ mlfq = <<>>
  /\ ioQueue = <<>>
  /\ ganttChart = <<>>
  /\ stateTransitions = <<>>
  /\ currentTime = 0
  /\ runningProcess = null
  /\ timeInCurrentBurst = 0
  /\ completedCount = 0
  /\ cpuBusyTime = 0
  /\ contextSwitchRemaining = 0
  /\ processArrivalIndex = 0
  /\ iterations = 0
  /\ currentQueueLevel = 0
  /\ currentTimeQuantum = 0
  /\ usedFullQuantum = FALSE
  /\ phase = "idle"
  /\ result = <<>>

\* One or two processes with pids 1 and 2.  The engine sorts its clones by
\* arrival time with a stable sort, so the order of the input list shows only
\* between processes that arrive together: those come in both orders.
InitWorkload(P1, P2) ==
  \/ \E p \in P1 : processes = setProcesses(<<p>>)
  \/ \E p \in P1, q \in P2 :
       \/ processes = setProcesses(<<p, q>>)
       \/ /\ p.arrivalTime = q.arrivalTime
          /\ processes = setProcesses(<<q, p>>)

PrioritiesOf(alg) == IF alg \in PriorityAlgorithms THEN 0..MaxPriority ELSE {0}

\* Every discipline, every generated option record, every generated workload.
Init ==
  /\ algorithm \in ALGORITHMS
  /\ options \in GeneralOptions(algorithm)
  /\ InitWorkload(GeneralInputs(1, PrioritiesOf(algorithm)),
                  GeneralInputs(2, PrioritiesOf(algorithm)))
  /\ InitEngine
  /\ InitCaller

InitScenario ==
  /\ \E r \in ScenarioRuns :
       /\ algorithm = r.algorithm
       /\ options = r.options
       /\ processes = setProcesses(r.workload)
  /\ InitEngine
  /\ InitCaller

InitDeepRuns ==
  /\ algorithm \in DeepAlgorithms
  /\ options \in DeepOptions(algorithm)
  /\ InitWorkload(DeepInputs(1, PrioritiesOf(algorithm)),
                  DeepInputs(2, PrioritiesOf(algorithm)))
  /\ InitEngine
  /\ InitCaller

InitDeep == InitScenario \/ InitDeepRuns

\* clone() handing back the PCB it was called on.
cloneIdentity_Same(i) == i

\* Which of the caller's PCBs the object returned by processes[i].clone() is:
\* none of them (0), clone() builds a new PCB.
cloneIdentity(i) == 0

\* The identities of the engine's PCBs, in the order of procs
cloneAliases(P) ==
  LET ByArrival(a, b) == a.arrivalTime < b.arrivalTime
      order == StableSort([i \in 1..Len(P) |-> i],
                          [i, j \in 1..Len(P) |-> ByArrival(P[i], P[j])])
  IN [k \in 1..Len(P) |-> cloneIdentity(order[k])]

\* The caller's PCBs after the engine has written its PCBs E: a caller's PCB
\* that is one of the engine's objects shows what the engine wrote.
WriteThrough(P, E, alias) ==
  [i \in 1..Len(P) |->
     IF \E h \in 1..Len(E) : alias[h] = i
     THEN E[CHOOSE h \in 1..Len(E) : alias[h] = i]
     ELSE P[i]]

\* procs = processes.map(p => p.clone()); procs.sort(by arrivalTime)
cloneAndSort(P) ==
  LET ByArrival(a, b) == a.arrivalTime < b.arrivalTime
  IN StableSort([i \in 1..Len(P) |-> clone(P[i])],
                [i, j \in 1..Len(P) |-> ByArrival(P[i], P[j])])

Assign(s) ==
  /\ procs' = s.procs
  /\ readyQueue' = s.readyQueue
  /\ mlfq' = s.mlfq
  /\ ioQueue' = s.ioQueue
  /\ ganttChart' = s.ganttChart
  /\ stateTransitions' = s.stateTransitions
  /\ currentTime' = s.currentTime
  /\ runningProcess' = s.runningProcess
  /\ timeInCurrentBurst' = s.timeInCurrentBurst
  /\ completedCount' = s.completedCount
  /\ cpuBusyTime' = s.cpuBusyTime
  /\ contextSwitchRemaining' = s.contextSwitchRemaining
  /\ processArrivalIndex' = s.processArrivalIndex
  /\ iterations' = s.iterations
  /\ currentQueueLevel' = s.currentQueueLevel
  /\ currentTimeQuantum' = s.currentTimeQuantum
  /\ usedFullQuantum' = s.usedFullQuantum

\* runAlgorithm(algorithmKey, processes, options) up to the engine's loop:
\* the clones, the arrival sort and the empty queues.
RunAlgorithm ==
  /\ phase = "idle"
  /\ algorithm \in ALGORITHMS
  /\ Assign([Cur EXCEPT !.procs = cloneAndSort(processes),
                        !.mlfq = IF algorithm = "MLFQ"
                                 THEN [i \in 1..Len(queueConfigs(options)) |-> <<>>]
                                 ELSE <<>>])
  /\ aliasOf' = cloneAliases(processes)
  /\ phase' = "loop"
  /\ UNCHANGED <<algorithm, options, processes, result>>
  /\ UNCHANGED ctlVars

\* while (completedCount < procs.length && iterations < maxIterations)
LoopCondition(cap) == completedCount < Len(procs) /\ iterations < cap

SchedulerTick(cap) ==
  /\ phase = "loop"
  /\ algorithm # "MLFQ"
  /\ LoopCondition(cap)
  /\ Assign(SchedulerIteration(algorithm, options, Cur))
  /\ processes' = WriteThrough(processes, procs', aliasOf)
  /\ UNCHANGED <<algorithm, options, aliasOf, phase, result>>
  /\ UNCHANGED ctlVars

MLFQTick(cap) ==
  /\ phase = "loop"
  /\ algorithm = "MLFQ"
  /\ LoopCondition(cap)
  /\ Assign(MLFQIteration(options, Cur))
  /\ processes' = WriteThrough(processes, procs', aliasOf)
  /\ UNCHANGED <<algorithm, options, aliasOf, phase, result>>
  /\ UNCHANGED ctlVars

SchedulerReturn(cap) ==
  /\ phase = "loop"
  /\ algorithm # "MLFQ"
  /\ ~LoopCondition(cap)
  /\ result' = EngineResult(Cur)
  /\ phase' = "done"
  /\ UNCHANGED <<algorithm, options, processes, procs, aliasOf, readyQueue,
                 mlfq, ioQueue, ganttChart, stateTransitions, currentTime,
                 runningProcess,
                 timeInCurrentBurst, completedCount, cpuBusyTime,
                 contextSwitchRemaining, processArrivalIndex, iterations,
                 currentQueueLevel, currentTimeQuantum, usedFullQuantum>>
  /\ UNCHANGED ctlVars

MLFQReturn(cap) ==
  /\ phase = "loop"
  /\ algorithm = "MLFQ"
  /\ ~LoopCondition(cap)
  /\ result' = EngineResult(Cur)
  /\ phase' = "done"
  /\ UNCHANGED <<algorithm, options, processes, procs, aliasOf, readyQueue,
                 mlfq, ioQueue, ganttChart, stateTransitions, currentTime,
                 runningProcess,
                 timeInCurrentBurst, completedCount, cpuBusyTime,
                 contextSwitchRemaining, processArrivalIndex, iterations,
                 currentQueueLevel, currentTimeQuantum, usedFullQuantum>>
  /\ UNCHANGED ctlVars

Next ==
  \/ RunAlgorithm
  \/ SchedulerTick(ScaledMaxIterations)
  \/ MLFQTick(ScaledMaxIterations)
  \/ SchedulerReturn(ScaledMaxIterations)
  \/ MLFQReturn(ScaledMaxIterations)

Spec == Init /\ [][Next]_vars

NextDeep ==
  \/ RunAlgorithm
  \/ SchedulerTick(maxIterations)
  \/ MLFQTick(maxIterations)
  \/ SchedulerReturn(maxIterations)
  \/ MLFQReturn(maxIterations)

SpecDeep == InitDeep /\ [][NextDeep]_vars

(***************************************************************************)
(* Runs of three processes in which an arrival, an I/O completion and a    *)
(* preemption fall into one tick: P1 is CPU-bound, P2 blocks for I/O after *)
(* its first CPU unit, P3 arrives while the two are under way.             *)
(***************************************************************************)
EnqueueAlgorithms == {"ROUND_ROBIN", "MLFQ"}

EnqueueOptions(alg) ==
  { Options(cs, tq, ai, undefined, q1, q2) :
      cs \in 0..MaxContextSwitch,
      tq \in IF alg = "MLFQ" THEN {undefined} ELSE 1..MaxDeepQuantum,
      ai \in IF alg = "MLFQ" THEN {0} ELSE {undefined},
      q1 \in IF alg = "MLFQ" THEN 1..MaxDeepQuantum ELSE {undefined},
      q2 \in IF alg = "MLFQ" THEN {MaxDeepQuantum} ELSE {undefined} }

EnqueueWorkloads ==
  { <<Input(1, 0, c1, 0, <<>>),
      Input(2, 0, c2, 0, <<IOB(1, d)>>),
      Input(3, a, c3, 0, <<>>)>> :
      c1 \in 2..MaxDeepBurst, c2 \in 2..MaxDeepBurst, d \in 1..MaxIODuration,
      a \in 1..(MaxArrival + 2), c3 \in 1..2 }

InitEnqueue ==
  /\ algorithm \in EnqueueAlgorithms
  /\ options \in EnqueueOptions(algorithm)
  /\ \E w \in EnqueueWorkloads : processes = setProcesses(w)
  /\ InitEngine
  /\ InitCaller

SpecEnqueue == InitEnqueue /\ [][NextDeep]_vars

(***************************************************************************)
(* Batch workloads: CPU-only processes that all arrive at tick 0, in every *)
(* order of the input list, run under the disciplines that sort the ready  *)
(* queue once per dispatch and never preempt.                              *)
(***************************************************************************)
\* Largest number of processes and largest cpuBurst of a batch workload.
MaxBatchProcs == 3
MaxBatchBurst == 3

\* The orders of an input list of n processes
Perms(n) == {f \in [1..n -> 1..n] : \A i, j \in 1..n : i # j => f[i] # f[j]}

BatchWorkloads ==
  UNION { { [i \in 1..n |-> CpuOnly(perm[i], 0, burst[perm[i]], 0)] :
              perm \in Perms(n), burst \in [1..n -> 1..MaxBatchBurst] }
          : n \in 1..MaxBatchProcs }

BatchAlgorithms == {"FCFS", "SJF"}

InitBatch ==
  /\ algorithm \in BatchAlgorithms
  /\ options \in {[NoOptions EXCEPT !.contextSwitchTime = cs] :
                    cs \in 0..MaxContextSwitch}
  /\ \E w \in BatchWorkloads \cup {S2Workload} : processes = setProcesses(w)
  /\ InitEngine
  /\ InitCaller

NextBatch ==
  \/ RunAlgorithm
  \/ SchedulerTick(maxIterations)
  \/ SchedulerReturn(maxIterations)

SpecBatch == InitBatch /\ [][NextBatch]_vars

(***************************************************************************)
(* HRRN runs of four CPU-only processes: P1 and P2 arrive at 0, P3 and P4   *)
(* while the CPU is busy, so that a dispatch finds processes of different  *)
(* waits and lengths in the ready queue.                                   *)
(***************************************************************************)
\* Largest cpuBurst and arrivalTime of these processes.
MaxRatioBurst == 4
MaxRatioArrival == 3

RatioWorkloads ==
  { <<CpuOnly(1, 0, c1, 0), CpuOnly(2, 0, c2, 0),
      CpuOnly(3, a3, c3, 0), CpuOnly(4, a4, c4, 0)>> :
      c1 \in 2..3, c2 \in 1..MaxRatioBurst,
      a3 \in 0..1, c3 \in 1..2,
      a4 \in 0..MaxRatioArrival, c4 \in 1..2 }

InitRatio ==
  /\ algorithm = "HRRN"
  /\ options \in {[NoOptions EXCEPT !.contextSwitchTime = cs] :
                    cs \in 0..MaxContextSwitch}
  /\ \E w \in RatioWorkloads : processes = setProcesses(w)
  /\ InitEngine
  /\ InitCaller

SpecRatio == InitRatio /\ [][NextBatch]_vars

(***************************************************************************)
(* MLFQ runs long enough for aging to promote a waiting process: a long    *)
(* CPU-bound P1 and a shorter P2 with or without an I/O burst after some   *)
(* or all of its CPU time, with aging on or off.                           *)
(***************************************************************************)
\* Largest cpuBurst of P1 and largest quantum of level 1 in these runs, and
\* their iteration cap: a run whose P2 ends with its I/O burst never
\* completes, so the code's cap of 10000 is scaled down to a value larger
\* than the length of every run that terminates (CapIsLargeEnough).
MaxPromoteBurst == 6
MaxPromoteQuantum == 4
PromoteMaxIterations == 30

PromoteWorkloads ==
  UNION {
    { <<CpuOnly(1, 0, c1, 0), Input(2, a, c2, 0, io)>> :
        c1 \in 4..MaxPromoteBurst, a \in 0..1,
        io \in {<<>>} \cup {<<IOB(ac, d)>> : ac \in 1..c2, d \in 1..2} }
    : c2 \in 2..3 }

PromoteOptions ==
  { Options(cs, undefined, ai, undefined, q1, q2) :
      cs \in 0..MaxContextSwitch, ai \in 0..MaxAgingInterval,
      q1 \in 1..2, q2 \in {1, MaxPromoteQuantum} }

InitPromote ==
  /\ algorithm = "MLFQ"
  /\ options \in PromoteOptions
  /\ \E w \in PromoteWorkloads : processes = setProcesses(w)
  /\ InitEngine
  /\ InitCaller

NextPromote ==
  \/ RunAlgorithm
  \/ MLFQTick(PromoteMaxIterations)
  \/ MLFQReturn(PromoteMaxIterations)

SpecPromote == InitPromote /\ [][NextPromote]_vars

(***************************************************************************)
(* Aging workloads: two or three CPU-only processes that arrive at tick 0  *)
(* with a wider range of priorities, run under the two priority            *)
(* disciplines with every aging interval and boost.                        *)
(***************************************************************************)
\* Largest priority, agingInterval and agingBoost of an aging run.
MaxAgePriority == 3
MaxAgeInterval == 2
MaxAgeBoost == 2

AgingInputs(pid) ==
  {CpuOnly(pid, 0, c, pr) : c \in 1..MaxCpuBurst, pr \in 0..MaxAgePriority}

AgingWorkloads ==
  {<<p, q>> : p \in AgingInputs(1), q \in AgingInputs(2)}
  \cup {<<p, q, r>> : p \in AgingInputs(1), q \in AgingInputs(2),
                      r \in AgingInputs(3)}

AgingOptions ==
  {Options(0, undefined, ai, ab, undefined, undefined) :
     ai \in 0..MaxAgeInterval, ab \in {undefined} \cup 1..MaxAgeBoost}

InitAging ==
  /\ algorithm \in PriorityAlgorithms
  /\ options \in AgingOptions
  /\ \E w \in AgingWorkloads : processes = setProcesses(w)
  /\ InitEngine
  /\ InitCaller

NextAging ==
  \/ RunAlgorithm
  \/ SchedulerTick(maxIterations)
  \/ SchedulerReturn(maxIterations)

SpecAging == InitAging /\ [][NextAging]_vars

(***************************************************************************)
(* validateProcessInputs (utils/schedulerUtils.js) and the inputs it is    *)
(* given.                                                                  *)
(***************************************************************************)
\* A process input object as the input table keeps it
ProcessInput(pid, arrivalTime, cpuBurst, priority, ioEnabled, ioBursts) ==
  [pid |-> pid, arrivalTime |-> arrivalTime, cpuBurst |-> cpuBurst,
   priority |-> priority, ioEnabled |-> ioEnabled, ioBursts |-> ioBursts]

\* The concatenation of a sequence of sequences
Flatten(ss) ==
  LET f[i \in 0..Len(ss)] == IF i = 0 THEN <<>> ELSE f[i - 1] \o ss[i]
  IN f[Len(ss)]

\* The messages validateProcessInputs pushes for one process, in order.  A
\* message is kept as its kind, the pid and the 1-based I/O number or the
\* afterCpu position it names.
processErrors(p) ==
  LET io == p.ioBursts
      ByAfterCpu(a, b) == a.afterCpu < b.afterCpu
      sorted == StableSort(io, [i, j \in 1..Len(io) |-> ByAfterCpu(io[i], io[j])])
      ioErrors(idx) ==
        (IF io[idx].afterCpu < 0 \/ io[idx].afterCpu > p.cpuBurst
         THEN <<[kind |-> "afterCpu", pid |-> p.pid, at |-> idx]>> ELSE <<>>)
        \o (IF io[idx].duration <= 0
            THEN <<[kind |-> "duration", pid |-> p.pid, at |-> idx]>> ELSE <<>>)
      overlap(i) ==
        IF i > 1 /\ sorted[i].afterCpu = sorted[i - 1].afterCpu
        THEN <<[kind |-> "overlap", pid |-> p.pid, at |-> sorted[i].afterCpu]>>
        ELSE <<>>
  IN (IF p.cpuBurst <= 0
      THEN <<[kind |-> "cpuBurst", pid |-> p.pid, at |-> 0]>> ELSE <<>>)
     \o (IF p.arrivalTime < 0
         THEN <<[kind |-> "arrivalTime", pid |-> p.pid, at |-> 0]>> ELSE <<>>)
     \o (IF p.ioEnabled
         THEN Flatten([idx \in 1..Len(io) |-> ioErrors(idx)])
              \o Flatten([i \in 1..Len(io) |-> overlap(i)])
         ELSE <<>>)

\* validateProcessInputs(processInputs)
validateProcessInputs(inputs) ==
  IF Len(inputs) = 0
  THEN [valid |-> FALSE, errors |-> <<[kind |-> "empty", pid |-> 0, at |-> 0]>>]
  ELSE LET errors == Flatten([i \in 1..Len(inputs) |-> processErrors(inputs[i])])
       IN [valid |-> Len(errors) = 0, errors |-> errors]

(***************************************************************************)
(* Input handling: the input lists within the bounds, valid or not, are     *)
(* validated and expanded into PCBs.                                       *)
(***************************************************************************)
\* Largest cpuBurst, arrivalTime and I/O duration of a generated input (the
\* smallest are 0, -1 and 0), and the largest number of I/O bursts.
MaxInputBurst == 2
MaxInputArrival == 0
MaxInputDuration == 2
MaxInputIO == 2

\* The ioBursts lists of an input with cpuBurst c: none, one burst of any
\* position and duration, or several bursts of duration 1 at positions 0..c in
\* any order.
InputIOBursts(c) ==
  LET one == {IOB(ac, d) : ac \in -1..(c + 1), d \in 0..MaxInputDuration}
      unit == {IOB(ac, 1) : ac \in 0..c}
  IN {<<>>} \cup {<<io>> : io \in one}
            \cup UNION {[1..n -> unit] : n \in 2..MaxInputIO}

\* Every input of the pid within the bounds
AnyInputs(pid) ==
  UNION { { ProcessInput(pid, a, c, 0, en, io) :
              a \in -1..MaxInputArrival, en \in BOOLEAN, io \in InputIOBursts(c) }
          : c \in 0..MaxInputBurst }

\* CPU-only inputs of the pid
PlainInputs(pid) ==
  { ProcessInput(pid, a, c, 0, FALSE, <<>>) : a \in {-1, 0}, c \in {0, 1} }

\* The empty list, one input of any shape, or one such input followed by a
\* CPU-only one.
InputLists ==
  {<<>>} \cup {<<p>> : p \in AnyInputs(1)}
         \cup {<<p, q>> : p \in AnyInputs(1), q \in PlainInputs(2)}

InitInput ==
  /\ algorithm = "FCFS"
  /\ options = NoOptions
  /\ processes = <<>>
  /\ InitEngine
  /\ processInputs \in InputLists
  /\ validation = NotCalled
  /\ InitController

\* The caller validates its inputs.
ValidateInputs ==
  /\ validation' = validateProcessInputs(processInputs)
  /\ UNCHANGED <<algorithm, options, processes, phase, result, engineVars,
                 processInputs, ctlState, currentTickIndex, simulationResult,
                 thrown, animation, callerOptions, pendingKeys, results>>

\* controller.setProcesses(processInputs)
SetProcesses ==
  /\ processes' = setProcesses(processInputs)
  /\ UNCHANGED <<algorithm, options, phase, result, engineVars, ctlVars>>

NextInput == ValidateInputs \/ SetProcesses

SpecInput == InitInput /\ [][NextInput]_vars


(***************************************************************************)
(* The I/O switch of a process input (TOGGLE_IO_MODE of the reducer)       *)
(* followed by controller.setProcesses, over valid process inputs.         *)
(***************************************************************************)
MaxToggleBurst == 3

\* The process inputs the form can hold before a toggle: I/O off with no
\* I/O burst, or I/O on with valid I/O bursts
ToggleInputs(pid) ==
  UNION { { ProcessInput(pid, 0, c, 0, FALSE, <<>>) }
          \cup { ProcessInput(pid, 0, c, 0, TRUE, io) :
                   io \in {<<>>} \cup {<<IOB(ac, d)>> :
                                         ac \in 0..c, d \in 1..MaxInputDuration} }
          : c \in 1..MaxToggleBurst }

InitToggle ==
  /\ algorithm = "FCFS"
  /\ options = NoOptions
  /\ processes = <<>>
  /\ InitEngine
  /\ processInputs \in {<<p>> : p \in ToggleInputs(1)}
                       \cup {<<p, q>> : p \in ToggleInputs(1), q \in ToggleInputs(2)}
  /\ validation = NotCalled
  /\ InitController

\* case ActionTypes.TOGGLE_IO_MODE
ToggleIOMode ==
  \E i \in 1..Len(processInputs) :
    /\ processInputs' =
         [processInputs EXCEPT
            ![i] = [@ EXCEPT !.ioEnabled = ~processInputs[i].ioEnabled,
                             !.ioBursts = IF ~processInputs[i].ioEnabled
                                          THEN <<>>
                                          ELSE processInputs[i].ioBursts]]
    /\ UNCHANGED <<algorithm, options, processes, phase, result, engineVars,
                   validation, ctlState, currentTickIndex, simulationResult,
                   thrown, animation, callerOptions, pendingKeys, results>>

NextToggle == ToggleIOMode \/ SetProcesses

SpecToggle == InitToggle /\ [][NextToggle]_vars

(***************************************************************************)
(* runAlgorithm as one call: the engine run from its first iteration to    *)
(* its return.                                                             *)
(***************************************************************************)
\* The locals before the loop, with the timeline and the transition log of
\* the run before left in place.
FreshEngine_Stale(alg, opts, P) ==
  [ procs |-> cloneAndSort(P), readyQueue |-> <<>>,
    mlfq |-> IF alg = "MLFQ"
             THEN [i \in 1..Len(queueConfigs(opts)) |-> <<>>] ELSE <<>>,
    ioQueue |-> <<>>, ganttChart |-> ganttChart,
    stateTransitions |-> stateTransitions,
    currentTime |-> 0, runningProcess |-> null, timeInCurrentBurst |-> 0,
    completedCount |-> 0, cpuBusyTime |-> 0, contextSwitchRemaining |-> 0,
    processArrivalIndex |-> 0, iterations |-> 0, currentQueueLevel |-> 0,
    currentTimeQuantum |-> 0, usedFullQuantum |-> FALSE ]

\* The locals of runSchedulerSimulation / runMLFQ before the loop
FreshEngine(alg, opts, P) ==
  [ procs |-> cloneAndSort(P), readyQueue |-> <<>>,
    mlfq |-> IF alg = "MLFQ"
             THEN [i \in 1..Len(queueConfigs(opts)) |-> <<>>] ELSE <<>>,
    ioQueue |-> <<>>, ganttChart |-> <<>>, stateTransitions |-> <<>>,
    currentTime |-> 0, runningProcess |-> null, timeInCurrentBurst |-> 0,
    completedCount |-> 0, cpuBusyTime |-> 0, contextSwitchRemaining |-> 0,
    processArrivalIndex |-> 0, iterations |-> 0, currentQueueLevel |-> 0,
    currentTimeQuantum |-> 0, usedFullQuantum |-> FALSE ]

\* The while loop and the return
RECURSIVE RunLoop(_, _, _, _)
RunLoop(alg, opts, s, cap) ==
  IF s.completedCount < Len(s.procs) /\ s.iterations < cap
  THEN RunLoop(alg, opts,
               IF alg = "MLFQ" THEN MLFQIteration(opts, s)
               ELSE SchedulerIteration(alg, opts, s),
               cap)
  ELSE EngineResult(s)

\* runAlgorithm(algorithmKey, processes, options) for a key of ALGORITHMS
runAlgorithm(key, P, opts, cap) == RunLoop(key, opts, FreshEngine(key, opts, P), cap)

(***************************************************************************)
(* SimulationController (simulation/SimulationController.js)               *)
(***************************************************************************)
UnknownAlgorithm == "Unknown algorithm"
NoProcesses == "No processes to simulate"

\* this.algorithmOptions as reset() sets it
DefaultOptions == Options(1, 4, 5, 1, 4, 8)

\* A key that is not in ALGORITHMS
UnknownKey == "LOTTERY"

\* Largest cpuBurst of a process input given to the controller.
MaxCtlBurst == 1

\* Inputs given to the controller: valid ones and ones that violate each of
\* the input constraints.
CtlInputs(pid) ==
  UNION { { ProcessInput(pid, a, c, 0, TRUE, io) :
              a \in {-1, 0},
              io \in {<<>>, <<IOB(1, 1), IOB(1, 1)>>}
                     \cup {<<IOB(ac, d)>> : ac \in {-1, 1, c + 1}, d \in {0, 1}} }
          : c \in 0..MaxCtlBurst }

CtlInputLists ==
  {<<>>} \cup {<<p>> : p \in CtlInputs(1)}
         \cup {<<ProcessInput(1, 0, 2, 0, FALSE, <<>>), q>> : q \in PlainInputs(2)}

\* The keys the caller selects: disciplines of both engines and an unknown one
CtlKeys == {"FCFS", "ROUND_ROBIN", "MLFQ", UnknownKey}

InitCtl ==
  /\ algorithm = "FCFS"
  /\ options = DefaultOptions
  /\ processes = <<>>
  /\ InitEngine
  /\ processInputs \in CtlInputLists
  /\ validation = NotCalled
  /\ InitController

\* setAlgorithm with the assignment made before the test.
SetAlgorithm_AssignFirst(key) ==
  /\ algorithm' = key
  /\ thrown' = IF key \notin ALGORITHMS THEN UnknownAlgorithm ELSE NoError
  /\ UNCHANGED <<options, processes, phase, result, engineVars, processInputs,
                 validation, ctlState, currentTickIndex, simulationResult,
                 animation, callerOptions, pendingKeys, results>>

\* setAlgorithm(key)
SetAlgorithm(key) ==
  /\ IF key \notin ALGORITHMS
     THEN thrown' = UnknownAlgorithm /\ UNCHANGED algorithm
     ELSE algorithm' = key /\ thrown' = NoError
  /\ UNCHANGED <<options, processes, phase, result, engineVars, processInputs,
                 validation, ctlState, currentTickIndex, simulationResult,
                 animation, callerOptions, pendingKeys, results>>

CtlSetAlgorithm == \E key \in CtlKeys : SetAlgorithm(key)

\* setProcesses(processInputs)
CtlSetProcesses ==
  /\ processes' = setProcesses(processInputs)
  /\ thrown' = NoError
  /\ UNCHANGED <<algorithm, options, phase, result, engineVars, processInputs,
                 validation, ctlState, currentTickIndex, simulationResult,
                 animation, callerOptions, pendingKeys, results>>

\* runComplete()
CtlRunComplete(cap) ==
  /\ IF Len(processes) = 0
     THEN /\ thrown' = NoProcesses
          /\ UNCHANGED <<simulationResult, ctlState, currentTickIndex>>
     ELSE /\ simulationResult' = runAlgorithm(algorithm, processes, options, cap)
          /\ ctlState' = "COMPLETED"
          /\ currentTickIndex' = Len(simulationResult'.rawGanttChart)
          /\ thrown' = NoError
  /\ UNCHANGED <<algorithm, options, processes, phase, result, engineVars,
                 processInputs, validation, animation,
                 callerOptions, pendingKeys, results>>

\* start()
CtlStart(cap) ==
  /\ IF ctlState = "RUNNING"
     THEN UNCHANGED <<simulationResult, ctlState, currentTickIndex, animation>>
     ELSE /\ simulationResult' =
               IF simulationResult = NoResult
               THEN runAlgorithm(algorithm, processes, options, cap)
               ELSE simulationResult
          /\ ctlState' = "RUNNING"
          /\ currentTickIndex' = 0
          /\ animation' = "running"
  /\ thrown' = NoError
  /\ UNCHANGED <<algorithm, options, processes, phase, result, engineVars,
                 processInputs, validation,
                 callerOptions, pendingKeys, results>>

\* tick(): TRUE iff it advances (its return value)
TickAdvances(sim, idx) == sim # NoResult /\ idx < Len(sim.rawGanttChart)

\* tick() called by the running AnimationController, which stops when it
\* returns false
CtlTick ==
  /\ animation = "running"
  /\ IF simulationResult = NoResult
     THEN animation' = "stopped" /\ UNCHANGED <<ctlState, currentTickIndex>>
     ELSE IF TickAdvances(simulationResult, currentTickIndex)
     THEN /\ currentTickIndex' = currentTickIndex + 1
          /\ UNCHANGED <<ctlState, animation>>
     ELSE /\ ctlState' = "COMPLETED"
          /\ animation' = "stopped"
          /\ UNCHANGED currentTickIndex
  /\ thrown' = NoError
  /\ UNCHANGED <<algorithm, options, processes, phase, result, engineVars,
                 processInputs, validation, simulationResult,
                 callerOptions, pendingKeys,
                 results>>

\* step()
CtlStep(cap) ==
  LET sim == IF simulationResult = NoResult
             THEN runAlgorithm(algorithm, processes, options, cap)
             ELSE simulationResult
  IN /\ simulationResult' = sim
     /\ IF TickAdvances(sim, currentTickIndex)
        THEN currentTickIndex' = currentTickIndex + 1 /\ ctlState' = "PAUSED"
        ELSE UNCHANGED currentTickIndex /\ ctlState' = "COMPLETED"
     /\ thrown' = NoError
     /\ UNCHANGED <<algorithm, options, processes, phase, result, engineVars,
                    processInputs, validation, animation,
                    callerOptions, pendingKeys, results>>

\* pause()
CtlPause ==
  /\ animation' = IF animation = "none" THEN "none" ELSE "stopped"
  /\ ctlState' = "PAUSED"
  /\ thrown' = NoError
  /\ UNCHANGED <<algorithm, options, processes, phase, result, engineVars,
                 processInputs, validation, currentTickIndex, simulationResult,
                 callerOptions, pendingKeys, results>>

\* resume()
CtlResume ==
  /\ animation' = IF animation = "none" THEN "none" ELSE "running"
  /\ ctlState' = "RUNNING"
  /\ thrown' = NoError
  /\ UNCHANGED <<algorithm, options, processes, phase, result, engineVars,
                 processInputs, validation, currentTickIndex, simulationResult,
                 callerOptions, pendingKeys, results>>

\* stop()
CtlStop ==
  /\ animation' = "none"
  /\ ctlState' = "IDLE"
  /\ currentTickIndex' = 0
  /\ simulationResult' = NoResult
  /\ thrown' = NoError
  /\ UNCHANGED <<algorithm, options, processes, phase, result, engineVars,
                 processInputs, validation,
                 callerOptions, pendingKeys, results>>

\* runAlgorithm(key, processes, options) called by itself; the Result it
\* returns is kept in result.
RunAlgorithmKey(key, cap) ==
  /\ IF key \notin ALGORITHMS
     THEN thrown' = UnknownAlgorithm /\ UNCHANGED result
     ELSE result' = runAlgorithm(key, processes, options, cap) /\ thrown' = NoError
  /\ UNCHANGED <<algorithm, options, processes, phase, engineVars, processInputs,
                 validation, ctlState, currentTickIndex, simulationResult,
                 animation, callerOptions, pendingKeys, results>>

CallRunAlgorithm(cap) == \E key \in {algorithm, UnknownKey} : RunAlgorithmKey(key, cap)


NextCtl ==
  \/ CtlSetAlgorithm
  \/ CtlSetProcesses
  \/ CtlRunComplete(ScaledMaxIterations)
  \/ CtlStart(ScaledMaxIterations)
  \/ CtlTick
  \/ CtlStep(ScaledMaxIterations)
  \/ CtlPause
  \/ CtlResume
  \/ CtlStop
  \/ CallRunAlgorithm(ScaledMaxIterations)

SpecCtl == InitCtl /\ [][NextCtl]_vars

(***************************************************************************)
(* compareAlgorithms (simulation/SimulationController.js): one controller  *)
(* per key, each run iteration by iteration.                               *)
(***************************************************************************)
\* name and shortName of the ALGORITHMS entries
AlgorithmName(key) ==
  CASE key = "FCFS" -> "First Come First Serve (FCFS)"
    [] key = "SJF" -> "Shortest Job First (SJF)"
    [] key = "SRTF" -> "Shortest Remaining Time First (SRTF)"
    [] key = "PRIORITY_NP" -> "Priority (Non-Preemptive)"
    [] key = "PRIORITY_P" -> "Priority (Preemptive)"
    [] key = "ROUND_ROBIN" -> "Round Robin (RR)"
    [] key = "HRRN" -> "Highest Response Ratio Next (HRRN)"
    [] key = "MLFQ" -> "Multilevel Feedback Queue (MLFQ)"
    [] OTHER -> key

AlgorithmShortName(key) ==
  CASE key = "PRIORITY_NP" -> "Priority-NP"
    [] key = "PRIORITY_P" -> "Priority-P"
    [] key = "ROUND_ROBIN" -> "RR"
    [] OTHER -> key

\* { ...this.algorithmOptions, ...options }
MergeOptions(own, given) ==
  [f \in DOMAIN own |-> OptOr(given[f], own[f])]

\* The Result with the two names compareAlgorithms adds to it
WithNames(r, key) ==
  [ ganttChart |-> r.ganttChart, rawGanttChart |-> r.rawGanttChart,
    stateTransitions |-> r.stateTransitions, processes |-> r.processes,
    metrics |-> r.metrics, algorithmName |-> AlgorithmName(key),
    algorithmShortName |-> AlgorithmShortName(key) ]

\* results[key] = r
Store(res, key, r) ==
  [k \in DOMAIN res \cup {key} |-> IF k = key THEN r ELSE res[k]]

\* Largest number of keys of a comparison.
MaxCompareKeys == 2

\* The key lists of a comparison: one or two keys of any kind, and longer
\* lists of three disciplines.
CompareKeyLists ==
  UNION { [1..n -> ALGORITHMS \cup {UnknownKey}] : n \in 1..2 }
    \cup UNION { [1..n -> {"FCFS", "ROUND_ROBIN", "MLFQ"}] :
                  n \in 3..MaxCompareKeys }

\* A longer process with priority 1, with or without an I/O burst inside its
\* CPU time, and a short one that arrives with it or later.
CompareWorkloads ==
  { <<Input(1, 0, 3, 1, io), Input(2, a, c, 0, <<>>)>> :
      io \in {<<>>, <<IOB(1, 1)>>}, a \in 0..MaxArrival, c \in 1..MaxCpuBurst }

CompareOptions ==
  { Options(cs, tq, undefined, undefined, undefined, undefined) :
      cs \in 0..MaxContextSwitch, tq \in {undefined} \cup 1..MaxQuantum }

InitCompare ==
  /\ algorithm = "FCFS"
  /\ options = DefaultOptions
  /\ processes = <<>>
  /\ InitEngine
  /\ processInputs \in CompareWorkloads
  /\ validation = NotCalled
  /\ ctlState = "IDLE"
  /\ currentTickIndex = 0
  /\ simulationResult = NoResult
  /\ thrown = NoError
  /\ animation = "none"
  /\ callerOptions \in CompareOptions
  /\ pendingKeys \in CompareKeyLists
  /\ results = <<>>

\* The loop body up to the engine's loop: new SimulationController(),
\* setProcesses, setAlgorithm, setOptions, and runComplete as far as the
\* clones and locals of the engine.
CompareBegin ==
  /\ phase \in {"idle", "stored"}
  /\ pendingKeys # <<>>
  /\ LET key == Head(pendingKeys)
         P == setProcesses(processInputs)
         opts == MergeOptions(DefaultOptions, callerOptions)
     IN /\ processes' = P
        /\ options' = opts
        /\ ctlState' = "IDLE"
        /\ currentTickIndex' = 0
        /\ simulationResult' = NoResult
        /\ IF key \notin ALGORITHMS
           THEN /\ thrown' = UnknownAlgorithm
                /\ pendingKeys' = <<>>
                /\ results' = <<>>
                /\ phase' = "idle"
                /\ UNCHANGED <<algorithm, engineVars>>
           ELSE IF Len(P) = 0
           THEN /\ thrown' = NoProcesses
                /\ algorithm' = key
                /\ pendingKeys' = <<>>
                /\ results' = <<>>
                /\ phase' = "idle"
                /\ UNCHANGED engineVars
           ELSE /\ algorithm' = key
                /\ Assign(FreshEngine(key, opts, P))
                /\ aliasOf' = cloneAliases(P)
                /\ phase' = "loop"
                /\ UNCHANGED <<thrown, pendingKeys, results>>
  /\ UNCHANGED <<result, processInputs, validation, animation, callerOptions>>

\* The rest of the loop body: runComplete stores and returns the Result,
\* compareAlgorithms names it and keeps it under the key.
CompareStore ==
  /\ phase = "done"
  /\ pendingKeys # <<>>
  /\ simulationResult' = result
  /\ ctlState' = "COMPLETED"
  /\ currentTickIndex' = Len(result.rawGanttChart)
  /\ results' = Store(results, Head(pendingKeys), WithNames(result, Head(pendingKeys)))
  /\ pendingKeys' = Tail(pendingKeys)
  /\ phase' = "stored"
  /\ UNCHANGED <<algorithm, options, processes, result, engineVars, processInputs,
                 validation, thrown, animation, callerOptions>>

NextCompare ==
  \/ CompareBegin
  \/ SchedulerTick(maxIterations)
  \/ MLFQTick(maxIterations)
  \/ SchedulerReturn(maxIterations)
  \/ MLFQReturn(maxIterations)
  \/ CompareStore

SpecCompare == InitCompare /\ [][NextCompare]_vars

\* The option record every controller of a comparison runs with
ComparedOptions == MergeOptions(DefaultOptions, callerOptions)

(***************************************************************************)
(* Observations used by the properties                                     *)
(***************************************************************************)
Handles == 1..Len(procs)

SeqToSet(q) == {q[i] : i \in 1..Len(q)}

\* Handles held by the ready structure (the ready queue, or every MLFQ level)
ReadyHandles ==
  SeqToSet(readyQueue) \cup UNION {SeqToSet(mlfq[i]) : i \in 1..Len(mlfq)}

IOHandles == {ioQueue[i].process : i \in 1..Len(ioQueue)}

RunningHandles == IF runningProcess = null THEN {} ELSE {runningProcess}

NotAdmitted == (processArrivalIndex + 1)..Len(procs)

TerminatedHandles == {h \in Handles : procs[h].state = "TERMINATED"}

\* A run the cap cuts short has nothing left that could still make progress:
\* the scaled cap truncates no run that the code's cap would let finish.
CapIsLargeEnough ==
  (phase = "done" /\ completedCount < Len(procs)) =>
     /\ ReadyHandles = {} /\ IOHandles = {} /\ RunningHandles = {}
     /\ NotAdmitted = {}

CountType(g, type) == Len(SelectSeq(g, LAMBDA e : e.type = type))

\* PROCESS ticks of the raw timeline that carry the pid
ProcessTicksOf(g, pid) ==
  Len(SelectSeq(g, LAMBDA e : e.type = "PROCESS" /\ e.pid = pid))

\* Sum of the durations of a PCB's I/O bursts
IODurationOf(p) ==
  SumSeq([i \in 1..Len(p.burstSequence) |->
            IF p.burstSequence[i].type = IO THEN p.burstSequence[i].duration ELSE 0])

TransitionsOf(pid) == SelectSeq(stateTransitions, LAMBDA e : e.pid = pid)

LegalEdges ==
  { <<"NEW", "READY">>, <<"READY", "RUNNING">>, <<"RUNNING", "READY">>,
    <<"RUNNING", "WAITING">>, <<"RUNNING", "TERMINATED">>,
    <<"WAITING", "READY">>, <<"WAITING", "TERMINATED">> }

\* The consolidated timeline as <<pid, startTime, endTime>> blocks
Blocks(g) == [i \in 1..Len(g) |-> <<g[i].pid, g[i].startTime, g[i].endTime>>]

\* responseTime of the process with the pid in the returned snapshots
ResponseOf(pid) ==
  LET i == CHOOSE k \in 1..Len(result.processes) : result.processes[k].pid = pid
  IN result.processes[i].responseTime

(***************************************************************************)
(* Properties                                                              *)
(***************************************************************************)

\* C1: every run on a valid workload stops only once every process is
\* TERMINATED (completedCount = number of processes): when the loop has been
\* left, no process is unfinished.
C1_Termination ==
  phase = "done" =>
    /\ completedCount = Len(procs)
    /\ \A h \in Handles : procs[h].state = "TERMINATED"

\* C2: a run that used up the iteration cap with a process still not
\* TERMINATED never returns a Result.
C2_CapIsHardError ==
  (iterations >= ScaledMaxIterations /\ \E h \in Handles : procs[h].state # "TERMINATED")
    => phase # "done"

\* C3: at the end of a run every terminated process p has
\* completionTime >= arrivalTime + totalCpuBurstTime + sum of its I/O durations.
C3_CompletionLowerBound ==
  phase = "done" =>
    \A h \in Handles :
      procs[h].state = "TERMINATED" =>
        procs[h].completionTime >=
          procs[h].arrivalTime + procs[h].totalCpuBurstTime + IODurationOf(procs[h])

\* C4: at the end of a run cpuBusyTime equals the sum of totalCpuBurstTime over
\* all processes, and each pid has exactly totalCpuBurstTime PROCESS ticks.
C4_CpuConservation ==
  phase = "done" =>
    /\ cpuBusyTime = SumSeq([h \in Handles |-> procs[h].totalCpuBurstTime])
    /\ \A h \in Handles :
         ProcessTicksOf(ganttChart, procs[h].pid) = procs[h].totalCpuBurstTime

\* C5: every loop iteration appends exactly one raw-timeline entry, of type
\* PROCESS, IDLE or CONTEXT_SWITCH, stamped with the tick it simulates: the
\* timeline is as long as currentTime (and as the iteration count), entry k
\* carries time k - 1, the PROCESS entries number cpuBusyTime, and in the
\* returned Result the three counts add up to totalTime.
C5_TickAccounting ==
  /\ Len(ganttChart) = currentTime
  /\ Len(ganttChart) = iterations
  /\ \A k \in 1..Len(ganttChart) :
       /\ ganttChart[k].time = k - 1
       /\ ganttChart[k].type \in {"PROCESS", "IDLE", "CONTEXT_SWITCH"}
  /\ CountType(ganttChart, "PROCESS") = cpuBusyTime
  /\ phase = "done" =>
       /\ result.metrics.totalTime = Len(result.rawGanttChart)
       /\ result.metrics.totalTime =
            CountType(result.rawGanttChart, "PROCESS")
            + CountType(result.rawGanttChart, "IDLE")
            + CountType(result.rawGanttChart, "CONTEXT_SWITCH")
       /\ result.metrics.contextSwitches =
            CountType(result.rawGanttChart, "CONTEXT_SWITCH")
       /\ CountType(result.rawGanttChart, "PROCESS") = cpuBusyTime

\* A finished run whose timeline holds all three kinds of tick.
C5_Witness ==
  /\ phase = "done"
  /\ CountType(ganttChart, "PROCESS") > 0
  /\ CountType(ganttChart, "IDLE") > 0
  /\ CountType(ganttChart, "CONTEXT_SWITCH") > 0

\* C6: at the end of a run, for every process, with turnaround =
\* completionTime - arrivalTime, waiting = turnaround - totalCpuBurstTime and
\* response = responseTime: turnaround >= waiting >= 0, response >= 0 and
\* response <= waiting.
C6_MetricInequalities ==
  phase = "done" =>
    \A i \in 1..Len(result.processes) :
      LET p == result.processes[i]
          turnaround == p.completionTime - p.arrivalTime
          waiting == turnaround - p.totalCpuBurstTime
          response == p.responseTime
      IN /\ turnaround >= waiting
         /\ waiting >= 0
         /\ response >= 0
         /\ response <= waiting

\* C7: for every pid the emitted transitions are a walk on the legal edges
\* that starts from NEW and, at the end of the run, ends in TERMINATED.
C7_LegalLifeCycle ==
  phase = "done" =>
    \A h \in Handles :
      LET tr == TransitionsOf(procs[h].pid)
      IN /\ Len(tr) > 0
         /\ tr[1].from = "NEW"
         /\ \A k \in 1..Len(tr) : <<tr[k].from, tr[k].to>> \in LegalEdges
         /\ \A k \in 2..Len(tr) : tr[k].from = tr[k - 1].to
         /\ tr[Len(tr)].to = "TERMINATED"

\* C8: at every tick boundary the not-yet-admitted processes, the ready
\* structure, the running slot, the I/O queue and the terminated processes
\* together are the whole population.
C8_NoProcessLost ==
  phase \in {"loop", "done"} =>
    NotAdmitted \cup ReadyHandles \cup RunningHandles \cup IOHandles
      \cup TerminatedHandles = Handles

\* The engine state in the current tick once arrivals and I/O completions
\* are in (steps 1 and 2 of the next iteration of runSchedulerSimulation).
AfterAdmission ==
  HandleIOCompletions(HandleArrivals([Cur EXCEPT !.iterations = @ + 1]))

\* C9: under ROUND_ROBIN with quantum q, timeInCurrentBurst never exceeds q;
\* q + 1 consecutive PROCESS ticks of one pid always have a preemption or an
\* I/O block of that pid between them; and a process that has used q ticks is
\* preempted at its next tick before anything is dispatched: RUNNING->READY is
\* emitted and the process is at the tail of the ready queue.
C9_RoundRobinQuantum ==
  (algorithm = "ROUND_ROBIN" /\ phase \in {"loop", "done"}) =>
    LET q == timeQuantumOf(algorithm, options)
        h == runningProcess
        s6 == HandlePreemption(algorithm, options, AfterAdmission)
    IN /\ timeInCurrentBurst <= q
       /\ \A k \in 1..(Len(ganttChart) - q) :
            (\A j \in k..(k + q) :
               /\ ganttChart[j].type = "PROCESS"
               /\ ganttChart[j].pid = ganttChart[k].pid)
            => \E i \in 1..Len(stateTransitions) :
                 /\ stateTransitions[i].pid = ganttChart[k].pid
                 /\ stateTransitions[i].from = "RUNNING"
                 /\ stateTransitions[i].to \in {"READY", "WAITING"}
                 /\ stateTransitions[i].time \in k..(k + q - 1)
       /\ (/\ phase = "loop"
           /\ LoopCondition(maxIterations)
           /\ h # null
           /\ timeInCurrentBurst >= q
           /\ contextSwitchRemaining = 0)
          => /\ s6.runningProcess = null
             /\ s6.readyQueue # <<>>
             /\ s6.readyQueue[Len(s6.readyQueue)] = h
             /\ s6.procs[h].state = "READY"
             /\ s6.stateTransitions[Len(s6.stateTransitions)] =
                  [time |-> currentTime, pid |-> procs[h].pid,
                   from |-> "RUNNING", to |-> "READY"]

\* A Round Robin run with a quantum of at least 2 in which a process was
\* preempted after a full quantum while another process was waiting.
C9_Witness ==
  /\ algorithm = "ROUND_ROBIN"
  /\ timeQuantumOf(algorithm, options) >= 2
  /\ Len(procs) >= 2
  /\ \E i \in 1..Len(stateTransitions) :
       /\ stateTransitions[i].from = "RUNNING"
       /\ stateTransitions[i].to = "READY"
       /\ \E j \in 1..Len(ganttChart) :
            /\ ganttChart[j].time = stateTransitions[i].time
            /\ ganttChart[j].type = "PROCESS"
            /\ ganttChart[j].pid # stateTransitions[i].pid

\* Scenario S3: SRTF, contextSwitchTime = 0, on the S3 workload.
IsS3 ==
  /\ algorithm = "SRTF"
  /\ contextSwitchTimeOf(options) = 0
  /\ processes = setProcesses(S3Workload)

\* C10 as claimed: the consolidated timeline of S3 is P1[0..1], P2[1..2],
\* P3[2..3], P4[3..4], P3[4..5], P2[5..8], P1[8..15] and every response time
\* is 0.
C10_S3AsClaimed ==
  (phase = "done" /\ IsS3) =>
    /\ Blocks(result.ganttChart) =
         << <<1, 0, 1>>, <<2, 1, 2>>, <<3, 2, 3>>, <<4, 3, 4>>, <<3, 4, 5>>,
            <<2, 5, 8>>, <<1, 8, 15>> >>
    /\ \A pid \in 1..4 : ResponseOf(pid) = 0

\* C10 as amended: P4 arrives at tick 3 with remaining time 1, equal to P3's,
\* so P3 is not preempted; the consolidated timeline of S3 is P1[0..1],
\* P2[1..2], P3[2..4], P4[4..5], P2[5..8], P1[8..15], every entry being a
\* PROCESS block; the response times of P1, P2, P3 are 0 and P4's is 1.
C10_S3Timeline ==
  (phase = "done" /\ IsS3) =>
    /\ Blocks(result.ganttChart) =
         << <<1, 0, 1>>, <<2, 1, 2>>, <<3, 2, 4>>, <<4, 4, 5>>, <<2, 5, 8>>,
            <<1, 8, 15>> >>
    /\ \A i \in 1..Len(result.ganttChart) : result.ganttChart[i].type = "PROCESS"
    /\ \A pid \in 1..3 : ResponseOf(pid) = 0
    /\ ResponseOf(4) = 1

\* The S3 run has returned.
C10_Witness == phase = "done" /\ IsS3 /\ completedCount = 4

\* C11: under SRTF, whenever a PROCESS tick is executed the executing
\* process's remaining burst time before the tick is <= that of every process
\* in the ready queue; and the running process is preempted at a tick only if
\* some ready process has strictly smaller remaining time.
C11_SRTFShortestJob ==
  (/\ phase = "loop"
   /\ algorithm = "SRTF"
   /\ LoopCondition(maxIterations)
   /\ AfterAdmission.contextSwitchRemaining = 0)
  => LET s2 == AfterAdmission
         s6 == HandlePreemption(algorithm, options, s2)
         s7 == SelectNext(algorithm, options, s6)
     IN /\ s7.runningProcess # null =>
             \A i \in 1..Len(s7.readyQueue) :
                s7.procs[s7.runningProcess].remainingBurstTime
                  <= s7.procs[s7.readyQueue[i]].remainingBurstTime
        /\ (s2.runningProcess # null /\ s6.runningProcess = null) =>
             \E i \in 1..Len(s2.readyQueue) :
                s2.procs[s2.readyQueue[i]].remainingBurstTime
                  < s2.procs[s2.runningProcess].remainingBurstTime

\* The workload is CPU-only and every process arrives at tick 0.
IsBatch ==
  \A i \in 1..Len(processes) :
    /\ processes[i].arrivalTime = 0
    /\ Len(processes[i].burstSequence) = 1
    /\ processes[i].burstSequence[1].type = CPU

\* Total waiting time of the non-preemptive schedule that runs the processes
\* back-to-back from tick 0 in the order perm: each waits for the bursts
\* before it.
ScheduleWaiting(perm) ==
  SumSeq([k \in 1..Len(processes) |->
            SumSeq([j \in 1..Len(processes) |->
                      IF j < k THEN processes[perm[j]].totalCpuBurstTime ELSE 0])])

\* C12: on a CPU-only workload with all arrivalTime = 0 and
\* contextSwitchTime = 0, the average waiting time of the SJF run is <= the
\* average waiting time of every permutation of the processes run
\* back-to-back from tick 0.
C12_SJFOptimal ==
  (/\ phase = "done"
   /\ algorithm = "SJF"
   /\ contextSwitchTimeOf(options) = 0
   /\ IsBatch)
  => LET avg == result.metrics.avgWaitingTime
         n == Len(processes)
     IN /\ avg.den = n
        /\ \A perm \in Perms(n) : avg.num * n <= ScheduleWaiting(perm) * avg.den

\* An SJF run of three processes whose input list is not in burst order and
\* for which some permutation waits strictly longer.
C12_Witness ==
  /\ phase = "done"
  /\ algorithm = "SJF"
  /\ contextSwitchTimeOf(options) = 0
  /\ IsBatch
  /\ Len(processes) >= 3
  /\ processes[1].totalCpuBurstTime > processes[2].totalCpuBurstTime
  /\ \E perm \in Perms(Len(processes)) :
       result.metrics.avgWaitingTime.num < ScheduleWaiting(perm)

\* The PROCESS blocks of the consolidated timeline, in order
ProcessBlocks(g) == SelectSeq(g, LAMBDA e : e.type = "PROCESS")

\* C13: on a CPU-only workload with all arrivalTime = 0, whatever the order
\* of the input list, FCFS executes the processes in ascending pid order,
\* each in one contiguous block: the PROCESS blocks of the consolidated
\* timeline are one per process, their pids strictly ascending, each block as
\* long as its process's cpuBurst.
C13_FCFSPidOrder ==
  (phase = "done" /\ algorithm = "FCFS" /\ IsBatch)
  => LET pb == ProcessBlocks(result.ganttChart)
     IN /\ Len(pb) = Len(processes)
        /\ \A k \in 1..(Len(pb) - 1) : pb[k].pid < pb[k + 1].pid
        /\ \A k \in 1..Len(pb) :
             \E i \in 1..Len(processes) :
               /\ processes[i].pid = pb[k].pid
               /\ processes[i].totalCpuBurstTime = pb[k].duration

\* An FCFS run of three processes given in descending pid order.
C13_Witness ==
  /\ phase = "done"
  /\ algorithm = "FCFS"
  /\ IsBatch
  /\ Len(processes) >= 3
  /\ processes[1].pid > processes[2].pid
  /\ processes[2].pid > processes[3].pid

\* Scenario S4: ROUND_ROBIN, timeQuantum = 4, contextSwitchTime = 0, on the
\* S4 workload.
IsS4 ==
  /\ algorithm = "ROUND_ROBIN"
  /\ timeQuantumOf(algorithm, options) = 4
  /\ contextSwitchTimeOf(options) = 0
  /\ processes = setProcesses(S4Workload)

\* C14: the consolidated timeline of S4 is P1[0..4], P2[4..8], P3[8..12],
\* P1[12..16], P3[16..19], P1[19..21], every entry a PROCESS block.
C14_S4Timeline ==
  (phase = "done" /\ IsS4) =>
    /\ Blocks(result.ganttChart) =
         << <<1, 0, 4>>, <<2, 4, 8>>, <<3, 8, 12>>, <<1, 12, 16>>,
            <<3, 16, 19>>, <<1, 19, 21>> >>
    /\ \A i \in 1..Len(result.ganttChart) : result.ganttChart[i].type = "PROCESS"

\* The S4 run has returned with its three processes terminated.
C14_Witness == phase = "done" /\ IsS4 /\ completedCount = 3

\* Scenario S6: MLFQ, level quanta 4 and 8, contextSwitchTime = 0, no aging,
\* on the S6 workload.
IsS6 ==
  /\ algorithm = "MLFQ"
  /\ queueConfigs(options) = <<4, 8, Infinity>>
  /\ contextSwitchTimeOf(options) = 0
  /\ agingIntervalOf(options) = 0
  /\ processes = setProcesses(S6Workload)

\* The consolidated timeline as <<pid, queueLevel, startTime, endTime>> blocks
LevelBlocks(g) ==
  [i \in 1..Len(g) |-> <<g[i].pid, g[i].queueLevel, g[i].startTime, g[i].endTime>>]

\* C15: in S6 P1 runs ticks 0..4 at level 0 and is demoted to level 1; P2
\* runs at level 0 and completes within one quantum (4..7); P1 runs an
\* 8-tick quantum at level 1 (7..15), is demoted to level 2 and runs there
\* for its remaining 8 ticks (15..23).  The two demotions are the only
\* preemptions of the run.
C15_S6Demotion ==
  (phase = "done" /\ IsS6) =>
    /\ LevelBlocks(result.ganttChart) =
         << <<1, 0, 0, 4>>, <<2, 0, 4, 7>>, <<1, 1, 7, 15>>, <<1, 2, 15, 23>> >>
    /\ \A i \in 1..Len(result.ganttChart) : result.ganttChart[i].type = "PROCESS"
    /\ SelectSeq(stateTransitions, LAMBDA e : e.from = "RUNNING" /\ e.to = "READY")
         = << [time |-> 4, pid |-> 1, from |-> "RUNNING", to |-> "READY"],
              [time |-> 15, pid |-> 1, from |-> "RUNNING", to |-> "READY"] >>
    /\ \E h \in Handles : procs[h].pid = 1 /\ procs[h].currentQueueLevel = 2
    /\ \E h \in Handles : procs[h].pid = 2 /\ procs[h].currentQueueLevel = 0

\* The S6 run has returned with both processes terminated.
C15_Witness == phase = "done" /\ IsS6 /\ completedCount = 2

\* The steps 4.-6. and 7. of the tick that is about to run
AfterPreemption == HandlePreemption(algorithm, options, AfterAdmission)

AfterSelection == SelectNext(algorithm, options, AfterPreemption)

\* A priority discipline is about to run the preemption and selection steps
\* of a tick.
PriorityTick ==
  /\ phase = "loop"
  /\ algorithm \in PriorityAlgorithms
  /\ LoopCondition(maxIterations)
  /\ AfterAdmission.contextSwitchRemaining = 0

\* The priority the claim gives a PCB that has waited in the ready queue
\* since lastReadyTime with the priority p0 it entered with
AgedPriority(p, p0, t) ==
  Max(0, p0 - ((t - p.lastReadyTime) \div agingIntervalOf(options))
                 * agingBoostOf(options))

\* The PCBs that have been in the ready queue since their admission: they
\* entered it with their original priority.
WaitingSinceAdmission(s) ==
  {h \in SeqToSet(s.readyQueue) : s.procs[h].responseTime = Unset}

\* C16: with agingInterval I > 0 and agingBoost B, after the priority
\* preemption check and after the selection of tick t every process that
\* entered the ready queue at tick r with priority p0 and has stayed there
\* since has priority max(0, p0 - floor((t - r) / I) * B); with I = 0 no
\* priority ever changes.  (Stated for the processes waiting since their
\* admission, whose p0 is their original priority.)
C16_AgingAmount ==
  /\ (algorithm \in PriorityAlgorithms /\ agingIntervalOf(options) = 0) =>
       \A h \in Handles : procs[h].priority = procs[h].originalPriority
  /\ (PriorityTick /\ agingIntervalOf(options) > 0) =>
       LET s2 == AfterAdmission
           s6 == AfterPreemption
           s7 == AfterSelection
           checked == /\ algorithm = "PRIORITY_P"
                      /\ s2.runningProcess # null
                      /\ s2.readyQueue # <<>>
           selected == s6.runningProcess = null /\ s6.readyQueue # <<>>
       IN /\ checked =>
               \A h \in WaitingSinceAdmission(s2) :
                  s6.procs[h].priority =
                    AgedPriority(s2.procs[h], s2.procs[h].originalPriority,
                                 s2.currentTime)
          /\ selected =>
               \A h \in WaitingSinceAdmission(s6) :
                  s7.procs[h].priority =
                    AgedPriority(s6.procs[h], s6.procs[h].originalPriority,
                                 s6.currentTime)

\* C17: in every state every process has 0 <= priority <= originalPriority,
\* and no step of a run raises a process's priority.
C17_PriorityBounds ==
  [][ /\ \A h \in DOMAIN procs' :
           /\ 0 <= procs'[h].priority
           /\ procs'[h].priority <= procs'[h].originalPriority
      /\ \A h \in DOMAIN procs \cap DOMAIN procs' :
           procs'[h].priority <= procs[h].priority ]_vars

\* Aging has lowered one waiting process's priority part of the way and
\* stopped another's at 0.
C17_Witness ==
  /\ \E h \in Handles :
       0 < procs[h].priority /\ procs[h].priority < procs[h].originalPriority
  /\ \E h \in Handles :
       procs[h].priority = 0 /\ procs[h].originalPriority > 0


\* Scenario S5: PRIORITY_NP, contextSwitchTime = 0, on the S5 workload
IsS5 ==
  /\ algorithm = "PRIORITY_NP"
  /\ contextSwitchTimeOf(options) = 0
  /\ processes = setProcesses(S5Workload)

\* The PCB of the process with the pid
PcbOf(pid) == procs[CHOOSE h \in Handles : procs[h].pid = pid]

\* C18: in S5 with agingInterval = 0, P1 runs ticks 0..10 and then P5 runs
\* ticks 10..13, P5's priority staying 5; with agingInterval = 2, P5's
\* priority is below its original 5 from the moment it is dispatched, and P5
\* terminates (by tick 13, after P1's burst).
C18_S5Aging ==
  IsS5 =>
    /\ (phase = "done" /\ agingIntervalOf(options) = 0) =>
         /\ Blocks(result.ganttChart) = << <<1, 0, 10>>, <<5, 10, 13>> >>
         /\ \A i \in 1..Len(result.ganttChart) :
              result.ganttChart[i].type = "PROCESS"
         /\ PcbOf(5).priority = 5
    /\ (phase = "loop" /\ agingIntervalOf(options) = 2
        /\ PcbOf(5).state = "RUNNING") =>
         PcbOf(5).priority < PcbOf(5).originalPriority
    /\ (phase = "done" /\ agingIntervalOf(options) = 2) =>
         /\ PcbOf(5).state = "TERMINATED"
         /\ PcbOf(5).priority < PcbOf(5).originalPriority
         /\ PcbOf(5).completionTime = 13
         /\ PcbOf(1).state = "TERMINATED"

\* The S5 run with agingInterval = 2 has returned: P5 waited through P1's
\* ten ticks and was aged when it was selected.
C18_Witness ==
  /\ phase = "done"
  /\ IsS5
  /\ agingIntervalOf(options) = 2
  /\ completedCount = 2
  /\ PcbOf(5).responseTime = 10


\* Entries of stateTransitions from RUNNING to the given state
CountTransitions(to) ==
  Len(SelectSeq(stateTransitions, LAMBDA e : e.from = "RUNNING" /\ e.to = to))

\* Dispatch changes of the run: preemptions, burst completions that lead to
\* I/O, and terminations that leave unfinished processes behind (every
\* termination but the last one of a run in which all processes terminated).
DispatchChanges ==
  CountTransitions("READY") + CountTransitions("WAITING")
    + (IF completedCount = Len(procs) /\ CountTransitions("TERMINATED") > 0
       THEN CountTransitions("TERMINATED") - 1
       ELSE CountTransitions("TERMINATED"))

\* C19: in a run in which every process terminated, the number of
\* CONTEXT_SWITCH ticks of the raw timeline is contextSwitchTime times the
\* number of dispatch changes; with contextSwitchTime = 0 no CONTEXT_SWITCH
\* tick is ever emitted.
C19_ContextSwitchDebit ==
  /\ contextSwitchTimeOf(options) = 0 => CountType(ganttChart, "CONTEXT_SWITCH") = 0
  /\ (phase = "done" /\ completedCount = Len(procs)) =>
       CountType(ganttChart, "CONTEXT_SWITCH")
         = contextSwitchTimeOf(options) * DispatchChanges


\* READY->RUNNING entries of a transition log that carry the pid
Dispatches(log, pid) ==
  SelectSeq(log, LAMBDA e : e.pid = pid /\ e.from = "READY" /\ e.to = "RUNNING")

\* C20: a process's responseTime changes from -1 only in the tick of its
\* first READY->RUNNING transition, to that tick minus its arrivalTime, and
\* the process executes a PROCESS tick in that tick; it is -1 as long as the
\* process has not been dispatched; once set it never changes.
C20_ResponseTimeOnce ==
  [][ \A h \in DOMAIN procs \cap DOMAIN procs' :
        LET p == procs[h]
            q == procs'[h]
        IN /\ p.responseTime # Unset => q.responseTime = p.responseTime
           /\ q.responseTime = Unset => Dispatches(stateTransitions', q.pid) = <<>>
           /\ (p.responseTime = Unset /\ q.responseTime # Unset) =>
                /\ q.responseTime = currentTime - p.arrivalTime
                /\ Dispatches(stateTransitions, p.pid) = <<>>
                /\ Dispatches(stateTransitions', p.pid)
                     = << [time |-> currentTime, pid |-> p.pid,
                           from |-> "READY", to |-> "RUNNING"] >>
                /\ ganttChart' # <<>>
                /\ LET e == ganttChart'[Len(ganttChart')]
                   IN e.type = "PROCESS" /\ e.pid = p.pid /\ e.time = currentTime
    ]_vars

\* One process has been dispatched again after a preemption and another after
\* an I/O burst, both with their responseTime already set; the first of them
\* was first dispatched after it had waited.
C20_Witness ==
  /\ \E h \in Handles :
       /\ procs[h].responseTime > 0
       /\ Len(Dispatches(stateTransitions, procs[h].pid)) >= 2
       /\ \E k \in 1..Len(stateTransitions) :
            /\ stateTransitions[k].pid = procs[h].pid
            /\ stateTransitions[k].from = "RUNNING"
            /\ stateTransitions[k].to = "READY"
  /\ \E h \in Handles :
       /\ procs[h].responseTime # Unset
       /\ Len(Dispatches(stateTransitions, procs[h].pid)) >= 2
       /\ \E k \in 1..Len(stateTransitions) :
            /\ stateTransitions[k].pid = procs[h].pid
            /\ stateTransitions[k].from = "WAITING"
            /\ stateTransitions[k].to = "READY"

\* The input constraints: cpuBurst >= 1, I/O bursts with pairwise distinct
\* afterCpu in 0..cpuBurst and duration >= 1.
ValidProcessInput(p) ==
  /\ p.cpuBurst >= 1
  /\ \A i \in 1..Len(p.ioBursts) :
       /\ 0 <= p.ioBursts[i].afterCpu
       /\ p.ioBursts[i].afterCpu <= p.cpuBurst
       /\ p.ioBursts[i].duration >= 1
  /\ \A i, j \in 1..Len(p.ioBursts) :
       i # j => p.ioBursts[i].afterCpu # p.ioBursts[j].afterCpu

\* The I/O bursts of an input in ascending afterCpu order
AscendingIO(p) ==
  LET io == p.ioBursts
  IN StableSort(io, [i, j \in 1..Len(io) |-> io[i].afterCpu < io[j].afterCpu])

\* The positions of the IO entries of a burst sequence, in order
IOPositions(seq) ==
  LET f[i \in 0..Len(seq)] ==
        IF i = 0 THEN <<>>
        ELSE IF seq[i].type = IO THEN Append(f[i - 1], i) ELSE f[i - 1]
  IN f[Len(seq)]

\* CPU time of the entries of a burst sequence before position k
CpuBefore(seq, k) ==
  SumSeq([i \in 1..(k - 1) |-> IF seq[i].type = CPU THEN seq[i].duration ELSE 0])

\* The burst sequence alternates CPU and IO with every duration >= 1 and its
\* CPU time is the input's cpuBurst.
AlternatingExpansion(p, seq) ==
  /\ \A i \in 1..(Len(seq) - 1) : seq[i].type # seq[i + 1].type
  /\ \A i \in 1..Len(seq) : seq[i].type \in {CPU, IO} /\ seq[i].duration >= 1
  /\ CpuBefore(seq, Len(seq) + 1) = p.cpuBurst

\* The burst sequence holds the input's I/O bursts in ascending afterCpu
\* order, each after exactly afterCpu units of CPU.
IOPlacedAtAfterCpu(p, seq) ==
  LET at == IOPositions(seq)
      io == AscendingIO(p)
  IN /\ Len(at) = Len(io)
     /\ \A k \in 1..Len(at) :
          /\ seq[at[k]].duration = io[k].duration
          /\ CpuBefore(seq, at[k]) = io[k].afterCpu

\* The burst sequence begins with a CPU burst and ends with a CPU burst.
CpuAtBothEnds(seq) ==
  /\ Len(seq) >= 1
  /\ seq[1].type = CPU
  /\ seq[Len(seq)].type = CPU

\* C21: for every process input that meets the input constraints, the burst
\* sequence createSimplePCB builds strictly alternates CPU and IO, begins and
\* ends with a CPU burst, has every duration >= 1, has CPU durations summing
\* to cpuBurst, and holds the I/O bursts in ascending afterCpu order, each
\* after exactly afterCpu units of CPU.
C21_BurstExpansion ==
  \A i \in 1..Len(processes) :
    (Len(processes) = Len(processInputs) /\ ValidProcessInput(processInputs[i])) =>
      /\ AlternatingExpansion(processInputs[i], processes[i].burstSequence)
      /\ CpuAtBothEnds(processes[i].burstSequence)
      /\ IOPlacedAtAfterCpu(processInputs[i], processes[i].burstSequence)

\* The workload violates the input constraints: it is empty, or some
\* process has cpuBurst <= 0, arrivalTime < 0, an I/O burst with afterCpu
\* outside 0..cpuBurst or with duration <= 0, or two I/O bursts with equal
\* afterCpu.
InvalidWorkload(inputs) ==
  \/ Len(inputs) = 0
  \/ \E i \in 1..Len(inputs) :
       inputs[i].arrivalTime < 0 \/ ~ValidProcessInput(inputs[i])

\* C23: validateProcessInputs returns valid = false with at least one
\* message exactly when the workload violates the input constraints;
\* otherwise it returns valid = true with no messages.
C23_ValidatorComplete ==
  validation # NotCalled =>
    IF InvalidWorkload(processInputs)
    THEN validation.valid = FALSE /\ Len(validation.errors) >= 1
    ELSE validation.valid = TRUE /\ validation.errors = <<>>

\* A run operation of the controller: runComplete, start or step
CtlRunOperation ==
  \/ CtlRunComplete(ScaledMaxIterations)
  \/ CtlStart(ScaledMaxIterations)
  \/ CtlStep(ScaledMaxIterations)

\* C22: a run operation of the controller on a workload that violates the
\* input constraints is rejected with an error, never invokes the engine and
\* leaves the controller's state, tick index and simulationResult unchanged.
C22_UpFrontValidation ==
  [][ (/\ InvalidWorkload(processInputs)
       /\ processes = setProcesses(processInputs)
       /\ CtlRunOperation)
      => (/\ thrown' # NoError
          /\ UNCHANGED <<ctlState, currentTickIndex, simulationResult>>) ]_vars

Admissions ==
  SelectSeq(stateTransitions, LAMBDA e : e.from = "NEW" /\ e.to = "READY")

\* C27: processes with the same arrivalTime are admitted in ascending pid
\* order whatever the order of the input list, and under ROUND_ROBIN and
\* MLFQ the one with the smaller pid is dispatched first.
C27_SameTickPidOrder ==
  /\ \A i, j \in 1..Len(Admissions) :
       (i < j /\ Admissions[i].time = Admissions[j].time)
         => Admissions[i].pid < Admissions[j].pid
  /\ algorithm \in {"ROUND_ROBIN", "MLFQ"} =>
       \A a, b \in Handles :
         (/\ procs[a].arrivalTime = procs[b].arrivalTime
          /\ procs[a].pid < procs[b].pid
          /\ procs[b].responseTime # Unset)
         => /\ procs[a].responseTime # Unset
            /\ procs[a].responseTime < procs[b].responseTime


\* Where a process entering the ready queue comes from, in the order of the
\* engine's steps: arrival (1), I/O completion (2), preemption (3).
ReadyRank(e) ==
  IF e.from = "NEW" THEN 1 ELSE IF e.from = "WAITING" THEN 2 ELSE 3

\* The position in stateTransitions of the last entry of pid into READY
LastReady(pid) ==
  LET S == { i \in DOMAIN stateTransitions :
               stateTransitions[i].pid = pid /\ stateTransitions[i].to = "READY" }
  IN IF S = {} THEN 0 ELSE CHOOSE i \in S : \A j \in S : j <= i

IsDispatch(e) == e.from = "READY" /\ e.to = "RUNNING"

\* C28: the entries into READY of one tick are made in the order arrivals,
\* I/O completions, preempted process; under ROUND_ROBIN the ready queue holds
\* its processes in the order they entered it, and the process preempted at a
\* tick is dispatched again only after every process that arrived or finished
\* its I/O at that tick has been dispatched.
C28_EnqueueOrder ==
  LET T == stateTransitions
  IN /\ \A i, j \in DOMAIN T :
          (/\ i < j /\ T[i].to = "READY" /\ T[j].to = "READY"
           /\ T[i].time = T[j].time)
          => ReadyRank(T[i]) <= ReadyRank(T[j])
     /\ algorithm = "ROUND_ROBIN" =>
          /\ \A i, j \in DOMAIN readyQueue :
               i < j => LastReady(procs[readyQueue[i]].pid)
                          < LastReady(procs[readyQueue[j]].pid)
          /\ \A i, j, k \in DOMAIN T :
               (/\ T[i].from = "RUNNING" /\ T[i].to = "READY"
                /\ T[j].to = "READY" /\ ReadyRank(T[j]) < 3
                /\ T[j].time = T[i].time
                /\ i < k /\ IsDispatch(T[k]) /\ T[k].pid = T[i].pid)
               => \E m \in (j + 1)..(k - 1) :
                    IsDispatch(T[m]) /\ T[m].pid = T[j].pid

\* A ROUND_ROBIN run in which one tick brought an arrival, an I/O completion
\* and a preemption, and the preempted process has been dispatched again.
C28_Witness ==
  LET T == stateTransitions
  IN /\ algorithm = "ROUND_ROBIN"
     /\ \E a, w, r, k \in DOMAIN T :
          /\ a < w /\ w < r /\ r < k
          /\ T[a].from = "NEW" /\ T[a].to = "READY"
          /\ T[w].from = "WAITING" /\ T[w].to = "READY"
          /\ T[r].from = "RUNNING" /\ T[r].to = "READY"
          /\ T[a].time = T[r].time /\ T[w].time = T[r].time
          /\ IsDispatch(T[k]) /\ T[k].pid = T[r].pid


\* C29: no process is RUNNING while a context switch is owed, so none is
\* dispatched while contextSwitchRemaining > 0; and with contextSwitchTime
\* c > 0 the c ticks that follow a preemption (RUNNING->READY at time t) are
\* CONTEXT_SWITCH ticks, before any PROCESS tick of the process dispatched
\* next.
C29_DispatchAfterSwitch ==
  LET c == contextSwitchTimeOf(options)
      T == stateTransitions
      G == ganttChart
  IN /\ runningProcess # null => contextSwitchRemaining = 0
     /\ \A i \in DOMAIN T :
          (T[i].from = "RUNNING" /\ T[i].to = "READY") =>
            \A u \in T[i].time..(T[i].time + c - 1) :
              u + 1 <= Len(G) => G[u + 1].type = "CONTEXT_SWITCH"


\* A step of the loop that emits a CONTEXT_SWITCH entry
ContextSwitchStep ==
  /\ Len(ganttChart') = Len(ganttChart) + 1
  /\ ganttChart'[Len(ganttChart')].type = "CONTEXT_SWITCH"

\* The transitions emitted by a step
NewTransitions ==
  SubSeq(stateTransitions', Len(stateTransitions) + 1, Len(stateTransitions'))

\* The process of handle h is admitted by a step (step 1 of the loop)
Admitted(h) == procs[h].state = "NEW" /\ procs'[h].state = "READY"

\* The I/O of the process of handle h completes in a step (step 2 of the loop)
IOFinished(h) == h \in IOHandles /\ h \notin IOHandles'

IsPrefix(a, b) == Len(a) <= Len(b) /\ SubSeq(b, 1, Len(a)) = a

\* What a context-switch tick leaves alone: the transitions it emits are
\* admissions and I/O completions only; the running process, its time in the
\* slice, the busy ticks and the completed count stay; contextSwitchRemaining
\* goes down by one and currentTime up by one; the ready queues only grow at
\* their tails; every I/O entry that stays has one tick less; and a process
\* that is neither admitted nor finishing its I/O is untouched.
ContextSwitchFrame ==
  /\ \A k \in DOMAIN NewTransitions :
       /\ NewTransitions[k].to = "READY"
       /\ NewTransitions[k].from \in {"NEW", "WAITING"}
       /\ NewTransitions[k].time = currentTime
  /\ runningProcess' = runningProcess
  /\ timeInCurrentBurst' = timeInCurrentBurst
  /\ cpuBusyTime' = cpuBusyTime
  /\ completedCount' = completedCount
  /\ currentQueueLevel' = currentQueueLevel
  /\ currentTimeQuantum' = currentTimeQuantum
  /\ usedFullQuantum' = usedFullQuantum
  /\ contextSwitchRemaining > 0
  /\ contextSwitchRemaining' = contextSwitchRemaining - 1
  /\ currentTime' = currentTime + 1
  /\ IsPrefix(readyQueue, readyQueue')
  /\ Len(mlfq') = Len(mlfq)
  /\ \A l \in DOMAIN mlfq : IsPrefix(mlfq[l], mlfq'[l])
  /\ \A k \in DOMAIN ioQueue' :
       \E j \in DOMAIN ioQueue :
         /\ ioQueue[j].process = ioQueue'[k].process
         /\ ioQueue'[k].remainingIOTime = ioQueue[j].remainingIOTime - 1
  /\ \A h \in Handles :
       IF Admitted(h)
       THEN [procs'[h] EXCEPT !.currentQueueLevel = procs[h].currentQueueLevel]
              = [procs[h] EXCEPT !.state = "READY",
                                 !.lastReadyTime = currentTime]
       ELSE IF IOFinished(h)
       THEN /\ procs'[h].currentBurstIndex = procs[h].currentBurstIndex + 1
            /\ [procs'[h] EXCEPT !.currentBurstIndex = 0,
                                 !.remainingBurstTime = 0,
                                 !.state = "READY",
                                 !.lastReadyTime = 0,
                                 !.currentQueueLevel = 0]
                 = [procs[h] EXCEPT !.currentBurstIndex = 0,
                                    !.remainingBurstTime = 0,
                                    !.state = "READY",
                                    !.lastReadyTime = 0,
                                    !.currentQueueLevel = 0]
       ELSE procs'[h] = procs[h]

\* C30: a tick that emits a CONTEXT_SWITCH entry emits no transition out of
\* RUNNING and no dispatch, changes no timeInCurrentBurst or cpuBusyTime,
\* and changes nothing but the admission of arrivals, the progress of the I/O
\* queue, contextSwitchRemaining and currentTime; remainingBurstTime changes
\* only for a process whose I/O completes in the tick, which moves to its
\* next burst.
C30_ContextSwitchTickOnly ==
  [][ContextSwitchStep =>
       /\ ContextSwitchFrame
       /\ \A h \in Handles :
            procs'[h].remainingBurstTime # procs[h].remainingBurstTime
              => IOFinished(h)]_vars

\* C30 as stated: in a tick that emits a CONTEXT_SWITCH entry no process's
\* remainingBurstTime changes.
C30_NoBurstChange ==
  [][ContextSwitchStep =>
       /\ ContextSwitchFrame
       /\ \A h \in Handles :
            procs'[h].remainingBurstTime = procs[h].remainingBurstTime]_vars

\* A context-switch tick in which a process arrived and the I/O of another
\* completed, the latter moving on to a CPU burst of another length.
C30_Witness ==
  \E g \in DOMAIN ganttChart, a, w \in DOMAIN stateTransitions, h \in Handles :
    /\ ganttChart[g].type = "CONTEXT_SWITCH"
    /\ stateTransitions[a].time = ganttChart[g].time
    /\ stateTransitions[a].from = "NEW"
    /\ stateTransitions[w].time = ganttChart[g].time
    /\ stateTransitions[w].from = "WAITING"
    /\ stateTransitions[w].pid = procs[h].pid
    /\ procs[h].currentBurstIndex = 2
    /\ procs[h].burstSequence[2].duration # procs[h].burstSequence[3].duration
    /\ currentTime = ganttChart[g].time + 1


\* C31: under FCFS, SJF, PRIORITY_NP and HRRN no RUNNING->READY transition is
\* ever emitted, and a tick that starts with a process on the CPU is a PROCESS
\* tick of that process, which takes one unit off its burst and leaves it on
\* the CPU unless the burst has reached 0.
C31_NonPreemptive ==
  [][(algorithm \in NonPreemptive /\ iterations' = iterations + 1) =>
       /\ \A i \in DOMAIN stateTransitions' :
            ~(/\ stateTransitions'[i].from = "RUNNING"
              /\ stateTransitions'[i].to = "READY")
       /\ runningProcess # null =>
            LET h == runningProcess
                g == ganttChart'[Len(ganttChart')]
            IN /\ Len(ganttChart') = Len(ganttChart) + 1
               /\ g.type = "PROCESS" /\ g.pid = procs[h].pid
               /\ g.time = currentTime
               /\ IF procs[h].remainingBurstTime > 1
                  THEN /\ runningProcess' = h
                       /\ procs'[h].remainingBurstTime
                            = procs[h].remainingBurstTime - 1
                       /\ procs'[h].currentBurstIndex
                            = procs[h].currentBurstIndex
                  ELSE /\ runningProcess' = null
                       /\ procs'[h].currentBurstIndex
                            = procs[h].currentBurstIndex + 1]_vars

\* A non-preemptive run whose caller passed timeQuantum 1: a process is on the
\* CPU past that quantum while a process of higher priority that arrived
\* after its dispatch waits in the ready queue.
C31_Witness ==
  /\ algorithm \in NonPreemptive
  /\ phase = "loop"
  /\ options.timeQuantum = 1
  /\ runningProcess # null
  /\ timeInCurrentBurst >= 2
  /\ \E i \in DOMAIN readyQueue :
       /\ procs[readyQueue[i]].priority < procs[runningProcess].priority
       /\ procs[readyQueue[i]].arrivalTime >= 1


\* The response ratio of the process of handle a at tick t in the PCBs P is
\* larger than that of b, the two quotients compared as rationals; or the
\* ratios are equal and a arrived earlier or, arriving together, has the
\* smaller pid.
RatioBefore(P, t, a, b) ==
  LET num(x) == (t - P[x].arrivalTime) + P[x].remainingBurstTime
      den(x) == P[x].remainingBurstTime
  IN \/ num(a) * den(b) > num(b) * den(a)
     \/ /\ num(a) * den(b) = num(b) * den(a)
        /\ \/ P[a].arrivalTime < P[b].arrivalTime
           \/ /\ P[a].arrivalTime = P[b].arrivalTime
              /\ P[a].pid < P[b].pid

\* C32: under HRRN the process dispatched at tick t is in the ready queue of
\* that tick and comes before every other process of the queue by response
\* ratio (t - arrivalTime + remaining) / remaining, then arrivalTime, then pid.
C32_HRRNSelection ==
  [][(algorithm = "HRRN" /\ iterations' = iterations + 1) =>
       \A k \in DOMAIN NewTransitions :
         IsDispatch(NewTransitions[k]) =>
           LET Q == SeqToSet(AfterAdmission.readyQueue)
               P == AfterAdmission.procs
           IN \E sel \in Q :
                /\ P[sel].pid = NewTransitions[k].pid
                /\ NewTransitions[k].time = currentTime
                /\ \A o \in Q \ {sel} :
                     /\ P[o].remainingBurstTime >= 1
                     /\ RatioBefore(P, currentTime, sel, o)]_vars

\* An HRRN dispatch that is neither the first-come nor the shortest choice:
\* the process dispatched one tick ago left behind a process that arrived
\* before it and a process that is shorter than it was.
C32_Witness ==
  /\ algorithm = "HRRN"
  /\ phase = "loop"
  /\ runningProcess # null
  /\ timeInCurrentBurst = 1
  /\ \E i, j \in DOMAIN readyQueue :
       /\ procs[readyQueue[i]].arrivalTime < procs[runningProcess].arrivalTime
       /\ procs[readyQueue[j]].remainingBurstTime
            < procs[runningProcess].remainingBurstTime + 1
       /\ procs[readyQueue[j]].arrivalTime < currentTime - 1


\* The engine state of runMLFQ in the current tick once arrivals and I/O
\* completions are in (steps 1 and 2 of its next iteration).
MLFQAfterAdmission ==
  MLFQHandleIOCompletions(MLFQHandleArrivals([Cur EXCEPT !.iterations = @ + 1]))

\* The process on the CPU is preempted by a step
Preempted ==
  /\ runningProcess # null
  /\ \E k \in DOMAIN NewTransitions :
       /\ NewTransitions[k].pid = procs[runningProcess].pid
       /\ NewTransitions[k].from = "RUNNING"
       /\ NewTransitions[k].to = "READY"

\* C33: under MLFQ with N levels, a process preempted with its quantum used
\* up re-enters at level min(level + 1, N - 1), a process preempted with
\* quantum left re-enters at its own level, in both cases at the tail of that
\* level; the level of a process goes up by no other event, and it is always
\* within 0..N-1.
C33_DemotionIffFullQuantum ==
  [][(algorithm = "MLFQ" /\ iterations' = iterations + 1) =>
       LET N == Len(mlfq)
           h == runningProcess
           full == QuantumExpired(timeInCurrentBurst, currentTimeQuantum)
           level == IF full THEN Min(currentQueueLevel + 1, N - 1)
                    ELSE currentQueueLevel
           s6 == MLFQHandlePreemption(options, MLFQAfterAdmission)
       IN /\ Preempted =>
               /\ procs'[h].currentQueueLevel = level
               /\ s6.mlfq[level + 1] # <<>>
               /\ s6.mlfq[level + 1][Len(s6.mlfq[level + 1])] = h
               /\ \A l \in 1..N : l # level + 1 =>
                    \A k \in DOMAIN s6.mlfq[l] : s6.mlfq[l][k] # h
          /\ \A p \in Handles :
               /\ procs'[p].currentQueueLevel \in 0..(N - 1)
               /\ procs'[p].currentQueueLevel > procs[p].currentQueueLevel
                    => p = h /\ Preempted /\ full]_vars

\* An MLFQ run in which a process that had been demoted to level 1 was
\* preempted by a higher level in the last tick, before its quantum was up,
\* and waits at level 1 again.
C33_Witness ==
  /\ algorithm = "MLFQ"
  /\ phase = "loop"
  /\ currentTime >= 2
  /\ \E h \in Handles, k \in DOMAIN stateTransitions :
       /\ procs[h].state = "READY"
       /\ procs[h].currentQueueLevel = 1
       /\ stateTransitions[k].pid = procs[h].pid
       /\ stateTransitions[k].from = "RUNNING"
       /\ stateTransitions[k].to = "READY"
       /\ stateTransitions[k].time = currentTime - 1
       /\ ganttChart[currentTime - 1].type = "PROCESS"
       /\ ganttChart[currentTime - 1].pid = procs[h].pid
       /\ ganttChart[currentTime - 1].queueLevel = 1


\* C34: under MLFQ every dispatch takes the head of the lowest-numbered
\* non-empty level and that level's quantum, and in every PROCESS tick of a
\* process running at level L all ready queues of the levels below L are
\* empty.
C34_StrictLevelPriority ==
  [][(algorithm = "MLFQ" /\ iterations' = iterations + 1) =>
       LET s7 == MLFQAging(options,
                   MLFQHandlePreemption(options, MLFQAfterAdmission))
           g == ganttChart'[Len(ganttChart')]
       IN /\ \A k \in DOMAIN NewTransitions :
               IsDispatch(NewTransitions[k]) =>
                 /\ ~mlfqIsEmpty(s7)
                 /\ NewTransitions[k].pid
                      = procs[Head(s7.mlfq[mlfqNextLevel(s7) + 1])].pid
                 /\ currentQueueLevel' = mlfqNextLevel(s7)
                 /\ currentTimeQuantum'
                      = queueConfigs(options)[mlfqNextLevel(s7) + 1]
                 /\ g.type = "PROCESS" /\ g.pid = NewTransitions[k].pid
                 /\ g.queueLevel = mlfqNextLevel(s7)
          /\ g.type = "PROCESS" =>
               \A l \in 1..g.queueLevel : mlfq'[l] = <<>>]_vars


\* The handle h is in the ready queue of the 0-based level l of the engine
\* state s
AtLevel(s, h, l) == \E k \in DOMAIN s.mlfq[l + 1] : s.mlfq[l + 1][k] = h

CpuConsumed(p) ==
  SumSeq([i \in 1..Len(p.burstSequence) |->
            IF p.burstSequence[i].type # CPU THEN 0
            ELSE IF i <= p.currentBurstIndex THEN p.burstSequence[i].duration
            ELSE IF i = p.currentBurstIndex + 1
            THEN p.burstSequence[i].duration - p.remainingBurstTime
            ELSE 0])

\* C36: every process in a ready structure or on the CPU has a current burst
\* of type CPU with remainingBurstTime >= 1, and the PROCESS ticks of a
\* process are all ticks of its CPU bursts: there are as many of them as the
\* CPU time it has consumed.
C36_ReadyIsRunnable ==
  \A h \in Handles :
    /\ h \in ReadyHandles \cup RunningHandles =>
         /\ ~isComplete(procs[h])
         /\ getCurrentBurstType(procs[h]) = CPU
         /\ procs[h].remainingBurstTime >= 1
    /\ ProcessTicksOf(ganttChart, procs[h].pid) = CpuConsumed(procs[h])


\* The per-tick entries a consolidated block stands for
BlockTicks(b) ==
  [k \in 1..b.duration |->
     [time |-> b.startTime + k - 1, type |-> b.type, pid |-> b.pid,
      queueLevel |-> b.queueLevel]]

\* The raw timeline a list of consolidated blocks stands for
ExpandBlocks(blocks) ==
  LET f[k \in 0..Len(blocks)] ==
        IF k = 0 THEN <<>> ELSE f[k - 1] \o BlockTicks(blocks[k])
  IN f[Len(blocks)]

SameBlockKey(a, b) ==
  a.type = b.type /\ a.pid = b.pid /\ a.queueLevel = b.queueLevel

\* blocks is a lossless partition of the raw timeline raw of length totalTime
LosslessPartition(blocks, raw, totalTime) ==
  /\ Len(raw) = totalTime
  /\ (totalTime > 0) = (Len(blocks) > 0)
  /\ Len(blocks) > 0 =>
       /\ blocks[1].startTime = 0
       /\ blocks[Len(blocks)].endTime = totalTime
  /\ \A i \in 1..Len(blocks) :
       /\ blocks[i].duration = blocks[i].endTime - blocks[i].startTime
       /\ blocks[i].duration >= 1
       /\ i < Len(blocks) =>
            /\ blocks[i].endTime = blocks[i + 1].startTime
            /\ ~SameBlockKey(blocks[i], blocks[i + 1])
  /\ ExpandBlocks(blocks) = raw

\* C37: consolidateGanttChart partitions every raw timeline of the engine
\* without loss: the first block starts at 0, each block ends where the next
\* starts, the last one ends at totalTime, duration = endTime - startTime,
\* adjacent blocks differ in (type, pid, queueLevel), and expanding the
\* blocks tick by tick gives the raw timeline back. It holds for the
\* timeline after every tick and for the returned result.
C37_LosslessPartition ==
  /\ phase \in {"loop", "done"} =>
       LosslessPartition(consolidateGanttChart(ganttChart), ganttChart,
                         currentTime)
  /\ result # NoResult =>
       LosslessPartition(result.ganttChart, result.rawGanttChart,
                         result.metrics.totalTime)

\* A returned MLFQ timeline with a block of several ticks, a block that is
\* not a PROCESS block, and one process in adjacent blocks of two levels
C37_Witness ==
  /\ result # NoResult
  /\ LET b == result.ganttChart
     IN /\ Len(b) >= 3
        /\ Len(b) < Len(result.rawGanttChart)
        /\ \E i \in 1..Len(b) : b[i].duration >= 2
        /\ \E i \in 1..Len(b) : b[i].type # "PROCESS"
        /\ \E i \in 1..(Len(b) - 1) :
             /\ b[i].type = "PROCESS" /\ b[i + 1].type = "PROCESS"
             /\ b[i].pid = b[i + 1].pid
             /\ b[i].queueLevel # b[i + 1].queueLevel


\* C38: work conservation. A tick gets an IDLE entry only if, after the
\* arrival admission and the I/O completions of that tick, no process is
\* running, every ready structure is empty and no process is READY; the
\* same is true once the tick is over.
C38_WorkConservation ==
  [][(iterations' = iterations + 1
        /\ ganttChart'[Len(ganttChart')].type = "IDLE") =>
       LET s2 == IF algorithm = "MLFQ" THEN MLFQAfterAdmission
                 ELSE AfterAdmission
       IN /\ s2.runningProcess = null
          /\ s2.readyQueue = <<>>
          /\ \A l \in 1..Len(s2.mlfq) : s2.mlfq[l] = <<>>
          /\ \A h \in Handles : s2.procs[h].state # "READY"
          /\ s2.contextSwitchRemaining = 0
          /\ runningProcess' = null
          /\ ReadyHandles' = {}
          /\ \A h \in Handles : procs'[h].state # "READY"]_vars

\* The CPU has just idled with every live process waiting for its I/O, after
\* it had executed two processes, one of them to its end
C38_Witness ==
  /\ phase = "loop"
  /\ ganttChart # <<>>
  /\ ganttChart[Len(ganttChart)].type = "IDLE"
  /\ \E k \in 1..Len(ganttChart) : ganttChart[k].type = "PROCESS"
  /\ ioQueue # <<>>
  /\ \E h \in Handles : procs[h].state = "TERMINATED"


\* C39: a process input with ioEnabled = false is simulated as one CPU burst
\* of length cpuBurst, whatever its ioBursts list holds: every
\* controller.setProcesses builds for it the burst sequence <<CPU cpuBurst>>.
C39_DisabledIsCpuOnly ==
  [][processInputs' = processInputs =>
       \A i \in 1..Len(processInputs) :
         ~processInputs[i].ioEnabled =>
           processes'[i].burstSequence
             = <<[type |-> CPU, duration |-> processInputs[i].cpuBurst]>>]_vars

\* The same, for the processes whose disabled input holds no I/O burst
C39_DisabledAndEmpty ==
  [][processInputs' = processInputs =>
       \A i \in 1..Len(processInputs) :
         (~processInputs[i].ioEnabled /\ processInputs[i].ioBursts = <<>>) =>
           processes'[i].burstSequence
             = <<[type |-> CPU, duration |-> processInputs[i].cpuBurst]>>]_vars


\* The animation callback that is armed would advance currentTickIndex
CallbackWouldAdvance ==
  animation = "running" /\ TickAdvances(simulationResult, currentTickIndex)

\* currentTickIndex stays within 0..len(rawTimeline) (0 without a result)
TickIndexInRange ==
  currentTickIndex \in
    0..(IF simulationResult = NoResult THEN 0
        ELSE Len(simulationResult.rawGanttChart))

\* C40: paused means no progress. Whenever the controller state is PAUSED or
\* IDLE no animation callback is left that advances currentTickIndex (the
\* index then changes through step(), start() or stop() only), and the index
\* always stays within 0..len(rawTimeline).
C40_PausedMeansNoProgress ==
  /\ ctlState \in {"PAUSED", "IDLE"} => ~CallbackWouldAdvance
  /\ TickIndexInRange

\* The part of C40 about the state IDLE
C40_IdleMeansNoProgress ==
  ctlState = "IDLE" => ~CallbackWouldAdvance

====
